---- MODULE Spec2Model ----
(***************************************************************************)
(* MuonTrackProducer (sbndcode/Commissioning/MuonTrackProducer_module.cc): *)
(* the Hough line finder with its merge pass and length filter, the        *)
(* cross-projection endpoint matcher, the endpoint classifier and the      *)
(* track assembly of produce().                                            *)
(*                                                                         *)
(* Vectors are sequences; a cleared vector<int> is the empty sequence <<>>.*)
(* C++ indices are 0-based: element k of a vector is v[k+1] here.          *)
(***************************************************************************)
EXTENDS Integers, Sequences, FiniteSets, TLC

VARIABLES
  pc,                 \* position in produce(): which statement runs next
  call,               \* the (plane, tpc) suffix of the Hough call in progress
  cfg,                \* the fcl parameters read by reconfigure()
  hitlist,            \* the recob::Hit list of the event
  hit,                \* hit_02, hit_12, hit_00, hit_01, hit_10, hit_11
  lines,              \* lines_02, lines_12, lines_00, lines_01, lines_10, lines_11
  hit_idx,            \* hit_idx_02, hit_idx_12
  coords, data, deaccu, outlines, outhit_idx, count, accu, save_hits,  \* locals of Hough()
  fe,                 \* locals of FindEndpoints(): arguments and loop indices
  wireIsect, wireEnds,\* answers the geometry service has given so far
  muon_endpoints, muon_hitpeakT, muon_hit_idx, muon_type, muon_t0, muon_trajectories,
  muon_tracks, muon_tracks_assn

houghVars == <<coords, data, deaccu, outlines, outhit_idx, count, accu, save_hits>>
geoVars   == <<wireIsect, wireEnds>>
muonVars  == <<muon_endpoints, muon_hitpeakT, muon_hit_idx, muon_type, muon_t0, muon_trajectories>>
outVars   == <<muon_tracks, muon_tracks_assn>>
vars == <<pc, call, cfg, hitlist, hit, lines, hit_idx, houghVars, fe, geoVars, muonVars, outVars>>

----------------------------------------------------------------------------
(* Bounds of the model *)

\* longest point bucket handed to a stand-alone Hough call
MaxPts == 3
\* <<wire, peak time in units of 0.5>> of the hits of a stand-alone bucket
HitVals == {<<1000, 3500>>, <<1001, 3505>>, <<1001, 3500>>}
\* three-hit tracks, <<wire, peak time in units of 0.5>> hit by hit; a
\* stand-alone bucket may also hold two of them one after the other
TrackVals ==
  {<<<<1000, 3500>>, <<1001, 3504>>, <<1002, 3508>>>>,
   <<<<1200, 3500>>, <<1202, 3500>>, <<1204, 3500>>>>}

\* a horizontal line of four hits with one hit off the line before the last,
\* which lies 36 wires after the third
GapTrack ==
  <<<<1200, 3500>>, <<1202, 3500>>, <<1204, 3500>>, <<1205, 3520>>, <<1240, 3500>>>>

\* three tracks of three collection hits each, by their first hit: the second
\* lies within 100 wires of both others, the first and the third are more than
\* 100 wires and 100 ticks apart; in the last bucket the third track is far
\* from both
MergeVals ==
  {<<<<1000, 3500>>, <<1050, 3760>>, <<1110, 3780>>>>,
   <<<<1000, 3500>>, <<1050, 3760>>, <<1120, 3796>>>>,
   <<<<1000, 3500>>, <<1050, 3760>>, <<1300, 4400>>>>}

\* the track of three hits that starts at the hit p
MergeTrack(p) == <<p, <<p[1] + 1, p[2] + 4>>, <<p[1] + 2, p[2] + 8>>>>

\* <<wire, peak time in units of 0.5>>: the last wire at tick 3499, the first
\* wire at tick 2, the last wire at tick 1, and wire 1000 at tick 4600
LimitVals == {<<1999, 6998>>, <<0, 4>>, <<1999, 2>>, <<1000, 9200>>}

\* tracks: three hits in a row, the same with peak times ending in .5, a later
\* one on the same wires, one that spans more than 2400 ticks, and one that
\* starts and ends on the same wire
Short     == <<<<1000, 3500>>, <<1001, 3504>>, <<1002, 3508>>>>
ShortHalf == <<<<1000, 3501>>, <<1001, 3505>>, <<1002, 3509>>>>
Other     == <<<<1000, 3800>>, <<1001, 3804>>, <<1002, 3808>>>>
Long      == <<<<1000, 200>>, <<1022, 2720>>, <<1044, 5240>>>>
Bent      == <<<<1000, 3500>>, <<1001, 3504>>, <<1000, 3508>>>>

\* a track that ends at tick 2000, and the same ticks on wires that run the
\* other way
Late      == <<<<1000, 3992>>, <<1001, 3996>>, <<1002, 4000>>>>
LateBack  == <<<<1006, 3992>>, <<1005, 3996>>, <<1004, 4000>>>>

----------------------------------------------------------------------------
(* Constants of Hough() *)

h == 3500
w == 2000
accu_h == h + w + 1
accu_w == 180
x_c == w \div 2
y_c == h \div 2
\* "ensure we don't jump large x-values"
MaxJump == 30
\* merge tolerances
var == 100
rho_var == 30
theta_var == 20

\* cos(j*PI/accu_w) and sin(j*PI/accu_w) for j = 0..179 with PI = 3.14159265,
\* as integers scaled by Scale and truncated toward zero
Scale == 1000000
CosT ==
   <<1000000, 999847, 999390, 998629, 997564, 996194, 994521, 992546, 990268, 987688,
     984807, 981627, 978147, 974370, 970295, 965925, 961261, 956304, 951056, 945518,
     939692, 933580, 927183, 920504, 913545, 906307, 898794, 891006, 882947, 874619,
     866025, 857167, 848048, 838670, 829037, 819152, 809016, 798635, 788010, 777145,
     766044, 754709, 743144, 731353, 719339, 707106, 694658, 681998, 669130, 656059,
     642787, 629320, 615661, 601815, 587785, 573576, 559192, 544639, 529919, 515038,
     500000, 484809, 469471, 453990, 438371, 422618, 406736, 390731, 374606, 358367,
     342020, 325568, 309016, 292371, 275637, 258819, 241921, 224951, 207911, 190808,
     173648, 156434, 139173, 121869, 104528, 87155, 69756, 52335, 34899, 17452,
     0, -17452, -34899, -52335, -69756, -87155, -104528, -121869, -139173, -156434,
     -173648, -190808, -207911, -224951, -241921, -258819, -275637, -292371, -309016, -325568,
     -342020, -358367, -374606, -390731, -406736, -422618, -438371, -453990, -469471, -484809,
     -499999, -515038, -529919, -544639, -559192, -573576, -587785, -601815, -615661, -629320,
     -642787, -656059, -669130, -681998, -694658, -707106, -719339, -731353, -743144, -754709,
     -766044, -777145, -788010, -798635, -809016, -819152, -829037, -838670, -848048, -857167,
     -866025, -874619, -882947, -891006, -898794, -906307, -913545, -920504, -927183, -933580,
     -939692, -945518, -951056, -956304, -961261, -965925, -970295, -974370, -978147, -981627,
     -984807, -987688, -990268, -992546, -994521, -996194, -997564, -998629, -999390, -999847 >>

SinT ==
   <<0, 17452, 34899, 52335, 69756, 87155, 104528, 121869, 139173, 156434,
     173648, 190808, 207911, 224951, 241921, 258819, 275637, 292371, 309016, 325568,
     342020, 358367, 374606, 390731, 406736, 422618, 438371, 453990, 469471, 484809,
     499999, 515038, 529919, 544639, 559192, 573576, 587785, 601815, 615661, 629320,
     642787, 656059, 669130, 681998, 694658, 707106, 719339, 731353, 743144, 754709,
     766044, 777145, 788010, 798635, 809016, 819152, 829037, 838670, 848048, 857167,
     866025, 874619, 882947, 891006, 898794, 906307, 913545, 920504, 927183, 933580,
     939692, 945518, 951056, 956304, 961261, 965925, 970295, 974370, 978147, 981627,
     984807, 987688, 990268, 992546, 994521, 996194, 997564, 998629, 999390, 999847,
     1000000, 999847, 999390, 998629, 997564, 996194, 994521, 992546, 990268, 987688,
     984807, 981627, 978147, 974370, 970295, 965925, 961261, 956304, 951056, 945518,
     939692, 933580, 927183, 920504, 913545, 906307, 898794, 891006, 882947, 874619,
     866025, 857167, 848048, 838670, 829037, 819152, 809016, 798635, 788010, 777145,
     766044, 754709, 743144, 731353, 719339, 707106, 694658, 681998, 669130, 656059,
     642787, 629320, 615661, 601815, 587785, 573576, 559192, 544639, 529919, 515038,
     500000, 484809, 469471, 453990, 438371, 422618, 406736, 390731, 374606, 358367,
     342020, 325568, 309016, 292371, 275637, 258819, 241921, 224951, 207911, 190808,
     173648, 156434, 139173, 121869, 104528, 87155, 69756, 52335, 34899, 17452 >>

----------------------------------------------------------------------------
(* Arithmetic helpers *)

Abs(n) == IF n < 0 THEN -n ELSE n

\* int(round(n/d)) for an even d > 0: C round() goes half away from zero
RoundDiv(n, d) ==
  IF n >= 0 THEN (n + d \div 2) \div d ELSE -(((-n) + d \div 2) \div d)

\* what int(round(v)) gives for an infinite v (division by sin(0) = 0): the
\* conversion is undefined; every build saturates far outside the time range
IntFar == -1073741824
\* what it gives for a NaN (0/0): the saturated value or 0, depending on the build
UBNaN == {IntFar, 0}

\* int r = int(round((x-x_c)*cos(j*PI/accu_w) + (y-y_c)*sin(j*PI/accu_w)))
\* the sum is formed in thousands (hi) and units (lo) of the scaled products,
\* which keeps every intermediate value small over the whole wire and time
\* range, and rounded half away from zero
Rho(x, y, j) ==
  LET dx == x - x_c
      dy == y - y_c
      c  == CosT[j + 1]
      s  == SinT[j + 1]
      hi == dx * (c \div 1000) + dy * (s \div 1000)
      lo == dx * (c % 1000) + dy * (s % 1000)
      q  == hi + (lo \div 1000)
  IN  IF q >= 0 THEN (q + 500) \div 1000
      ELSE IF lo % 1000 = 0 THEN -((500 - q) \div 1000)
      ELSE -((499 - q) \div 1000)

\* int y_val = int(round((rho - (x1 - x_c)*cos(theta*PI/180.0))/sin(theta*PI/180.0) + y_c))
YVal(rho, theta, x1, nanv) ==
  LET b == SinT[theta + 1]
      \* a = rho*Scale - (x1 - x_c)*CosT = 1000*a1 + a0
      a1 == rho * 1000 - (x1 - x_c) * (CosT[theta + 1] \div 1000)
      a0 == -(x1 - x_c) * (CosT[theta + 1] % 1000)
      t == IF b = 0 THEN 0 ELSE 1000 * (a1 % b) + a0
      q == IF b = 0 THEN 0 ELSE 1000 * (a1 \div b) + (t \div b)
      rem == IF b = 0 THEN 0 ELSE t % b
      whole == q + y_c
  IN  IF b = 0 THEN (IF a0 % 1000 = 0 /\ a1 = -(a0 \div 1000) THEN nanv ELSE IntFar)
      ELSE IF whole >= 0 THEN whole + (IF 2 * rem >= b THEN 1 ELSE 0)
      ELSE whole + (IF 2 * rem > b THEN 1 ELSE 0)

----------------------------------------------------------------------------------------------------------------------------------------
(* The accumulator: adata[r][j] is accu[j + 1][r]; a column holds only its *)
(* nonzero cells                                                           *)

EmptyColumn == [r \in {} |-> 0]
EmptyAccu == [j \in 1..accu_w |-> EmptyColumn]

ColumnAt(col, r) == IF r \in DOMAIN col THEN col[r] ELSE 0

AccuAt(a, r, j) == ColumnAt(a[j + 1], r)

\* adata = &accu[(accu_h-1)/2]: adata[r] is a row of accu for these r only
RowInAccu(r) == r + (accu_h - 1) \div 2 \in 0..(accu_h - 1)

\* the points <<wire, tick>> of the buckets above
BucketPoints ==
  LET Point(v) == <<v[1], v[2] \div 2>>
      Points(tr) == {Point(tr[k]) : k \in 1..Len(tr)}
  IN  {Point(v) : v \in HitVals \cup LimitVals}
      \cup UNION {Points(tr) : tr \in TrackVals \cup {GapTrack, Short, ShortHalf, Other, Long, Bent, Late, LateBack}}
      \cup UNION {Points(MergeTrack(v[k])) : v \in MergeVals, k \in 1..3}

\* their rho in every theta bin, worked out once
RhoTable == [p \in BucketPoints |-> [j \in 1..accu_w |-> Rho(p[1], p[2], j - 1)]]

\* the rho of a point in every theta bin
Rhos(x, y) ==
  IF <<x, y>> \in BucketPoints THEN RhoTable[<<x, y>>]
  ELSE [j \in 1..accu_w |-> Rho(x, y, j - 1)]

\* variant of Bump: every vote counts twice
BumpTwice(col, r, d) ==
  LET n == ColumnAt(col, r) + 2 * d
  IN  IF n = 0 THEN [q \in (DOMAIN col) \ {r} |-> col[q]]
      ELSE [q \in (DOMAIN col) \cup {r} |-> IF q = r THEN n ELSE col[q]]

\* add d to cell r of a column
Bump(col, r, d) ==
  LET n == ColumnAt(col, r) + d
  IN  IF n = 0 THEN [q \in (DOMAIN col) \ {r} |-> col[q]]
      ELSE [q \in (DOMAIN col) \cup {r} |-> IF q = r THEN n ELSE col[q]]

\* add d to the cell of the point (x, y) in every theta bin
AccuAdd(a, x, y, d) ==
  LET rs == Rhos(x, y)
  IN  [j \in 1..accu_w |-> Bump(a[j], rs[j], d)]

RECURSIVE AccuAddAll(_, _, _)
AccuAddAll(a, pts, d) ==
  IF pts = <<>> THEN a
  ELSE AccuAddAll(AccuAdd(a, Head(pts)[1], Head(pts)[2], d), Tail(pts), d)

----------------------------------------------------------------------------
(* Hough(): one iteration of the point loop *)

\* variant of FirstBin: the last theta bin whose count is m
LastBin(vals, m) ==
  LET bins == {j \in 1..accu_w : vals[j] = m}
  IN  CHOOSE j \in bins : \A j2 \in bins : j >= j2

\* the first theta bin whose count is m
FirstBin(vals, m) ==
  LET bins == {j \in 1..accu_w : vals[j] = m}
  IN  CHOOSE j \in bins : \A j2 \in bins : j <= j2

\* the vote of the sampled point (x, y) into the accumulator a (already
\* incremented): the cell with the highest count, first theta bin first, if it
\* beats threshold - 1
Vote(a, x, y) ==
  LET rs   == Rhos(x, y)
      vals == [j \in 1..accu_w |-> ColumnAt(a[j], rs[j])]
      S    == {vals[j] : j \in 1..accu_w}
      M    == CHOOSE m \in S : \A m2 \in S : m2 <= m
      jm   == FirstBin(vals, M) - 1
  IN  IF cfg.fHoughThreshold - 1 < M
      THEN [max_val |-> M, rho |-> rs[jm + 1], theta |-> (jm * 180) \div accu_w]
      ELSE [max_val |-> cfg.fHoughThreshold - 1, rho |-> 0, theta |-> 0]

\* variant of Accept: the point stays in coords
AcceptKeepCoords(wk, i, p) ==
  LET wire_idx == wk.data[p + 1][3]
  IN  [i |-> i, gap |-> 0,
       endpoint |-> <<wk.data[p + 1][1], wk.data[p + 1][2], wire_idx, p>>,
       coords |-> wk.coords,
       data |-> [wk.data EXCEPT ![p + 1] = <<>>],
       lines_idx |-> IF save_hits THEN Append(wk.lines_idx, wire_idx) ELSE wk.lines_idx]

\* variant of Accept: the point stays in data
AcceptKeepData(wk, i, p) ==
  LET wire_idx == wk.data[p + 1][3]
  IN  [i |-> i, gap |-> 0,
       endpoint |-> <<wk.data[p + 1][1], wk.data[p + 1][2], wire_idx, p>>,
       coords |-> [wk.coords EXCEPT ![p + 1] = <<>>],
       data |-> wk.data,
       lines_idx |-> IF save_hits THEN Append(wk.lines_idx, wire_idx) ELSE wk.lines_idx]

\* the accepted branch of the walk: the point at p of data becomes endpoint[k]
\* and is removed from coords and from data
Accept(wk, i, p) ==
  LET wire_idx == wk.data[p + 1][3]
  IN  [i |-> i, gap |-> 0,
       endpoint |-> <<wk.data[p + 1][1], wk.data[p + 1][2], wire_idx, p>>,
       coords |-> [wk.coords EXCEPT ![p + 1] = <<>>],
       data |-> [wk.data EXCEPT ![p + 1] = <<>>],
       lines_idx |-> IF save_hits THEN Append(wk.lines_idx, wire_idx) ELSE wk.lines_idx]

\* variant of Walk: the first rejection ends the walk
RECURSIVE WalkStopAtReject(_, _, _, _, _, _)
WalkStopAtReject(k, idx, rho, theta, nanv, wk) ==
  IF ~(wk.gap < cfg.fHoughMaxGap) THEN wk
  ELSE
    LET i == IF k = 0 THEN wk.i + 1 ELSE wk.i - 1
        p == idx + i
    IN  IF p = Len(wk.data) \/ p < 0 THEN wk
        ELSE IF wk.data[p + 1] = <<>>
        THEN WalkStopAtReject(k, idx, rho, theta, nanv, [wk EXCEPT !.i = i])
        ELSE
          LET x1 == wk.data[p + 1][1]
              y1 == wk.data[p + 1][2]
              y_val == YVal(rho, theta, x1, nanv)
          IN  IF wk.endpoint[1] # 0 /\ Abs(wk.endpoint[1] - x1) > MaxJump THEN wk
              ELSE IF Abs(y_val - y1) <= cfg.fHoughRange
              THEN WalkStopAtReject(k, idx, rho, theta, nanv, Accept(wk, i, p))
              ELSE [wk EXCEPT !.i = i, !.gap = @ + 1]

\* variant of Walk: a rejection leaves the gap counter as it is
RECURSIVE WalkNoGap(_, _, _, _, _, _)
WalkNoGap(k, idx, rho, theta, nanv, wk) ==
  IF ~(wk.gap < cfg.fHoughMaxGap) THEN wk
  ELSE
    LET i == IF k = 0 THEN wk.i + 1 ELSE wk.i - 1
        p == idx + i
    IN  IF p = Len(wk.data) \/ p < 0 THEN wk
        ELSE IF wk.data[p + 1] = <<>>
        THEN WalkNoGap(k, idx, rho, theta, nanv, [wk EXCEPT !.i = i])
        ELSE
          LET x1 == wk.data[p + 1][1]
              y1 == wk.data[p + 1][2]
              y_val == YVal(rho, theta, x1, nanv)
          IN  IF wk.endpoint[1] # 0 /\ Abs(wk.endpoint[1] - x1) > MaxJump THEN wk
              ELSE IF Abs(y_val - y1) <= cfg.fHoughRange
              THEN WalkNoGap(k, idx, rho, theta, nanv, Accept(wk, i, p))
              ELSE WalkNoGap(k, idx, rho, theta, nanv, [wk EXCEPT !.i = i])

\* the while loop of one direction k; wk holds i, gap, endpoint[k], coords,
\* data and lines_idx
RECURSIVE Walk(_, _, _, _, _, _)
Walk(k, idx, rho, theta, nanv, wk) ==
  IF ~(wk.gap < cfg.fHoughMaxGap) THEN wk
  ELSE
    LET i == IF k = 0 THEN wk.i + 1 ELSE wk.i - 1
        p == idx + i
    IN  IF p = Len(wk.data) \/ p < 0 THEN wk
        ELSE IF wk.data[p + 1] = <<>>
        THEN Walk(k, idx, rho, theta, nanv, [wk EXCEPT !.i = i])
        ELSE
          LET x1 == wk.data[p + 1][1]
              y1 == wk.data[p + 1][2]
              y_val == YVal(rho, theta, x1, nanv)
          IN  IF wk.endpoint[1] # 0 /\ Abs(wk.endpoint[1] - x1) > MaxJump THEN wk
              ELSE IF Abs(y_val - y1) <= cfg.fHoughRange
              THEN Walk(k, idx, rho, theta, nanv, Accept(wk, i, p))
              ELSE Walk(k, idx, rho, theta, nanv, [wk EXCEPT !.i = i, !.gap = @ + 1])

\* both directions, k = 0 then k = 1
Corridor(idx, rho, theta, nanv) ==
  LET w0 == Walk(0, idx, rho, theta, nanv,
                 [i |-> 0, gap |-> 0, endpoint |-> <<0, 0, 0, 0>>,
                  coords |-> coords, data |-> data, lines_idx |-> <<>>])
      w1 == Walk(1, idx, rho, theta, nanv,
                 [i |-> 0, gap |-> 0, endpoint |-> <<0, 0, 0, 0>>,
                  coords |-> w0.coords, data |-> w0.data, lines_idx |-> w0.lines_idx])
  IN  [endpoint |-> <<w0.endpoint, w1.endpoint>>, coords |-> w1.coords,
       data |-> w1.data, lines_idx |-> w1.lines_idx]

\* a de-accumulator point lies in the corridor of the line (rho, theta)
InCorridor(p, rho, theta, nanv) ==
  LET y_val == YVal(rho, theta, p[1], nanv)
  IN  p[2] >= y_val - cfg.fHoughRange /\ p[2] <= y_val + cfg.fHoughRange

\* variant of Unvote: every de-accumulator point is un-voted
UnvoteAll(acc, dea, rho, theta, nanv) ==
  [accu |-> AccuAddAll(acc, dea, -1), deaccu |-> <<>>]

\* variant of Unvote: the un-voted points stay in the de-accumulator
UnvoteKeepPoints(acc, dea, rho, theta, nanv) ==
  LET In(p) == InCorridor(p, rho, theta, nanv)
  IN  [accu |-> AccuAddAll(acc, SelectSeq(dea, In), -1), deaccu |-> dea]

\* "unvote from the accumulator"
Unvote(acc, dea, rho, theta, nanv) ==
  LET In(p)  == InCorridor(p, rho, theta, nanv)
      Out(p) == ~InCorridor(p, rho, theta, nanv)
  IN  [accu |-> AccuAddAll(acc, SelectSeq(dea, In), -1), deaccu |-> SelectSeq(dea, Out)]

\* variant of Outline: dropped only when both endpoints are (0,0)
OutlineEitherEnd(endpoint, rho, theta) ==
  LET e0 == endpoint[1]
      e1 == endpoint[2]
  IN  IF (e0[1] = 0 /\ e0[2] = 0) /\ (e1[1] = 0 /\ e1[2] = 0) THEN <<>>
      ELSE <<e0[1], e0[2], e1[1], e1[2], e0[3], e1[3], e0[4], e1[4], rho, theta>>

\* the outline vector of a corridor, or <<>> for "don't add the (0,0) points"
Outline(endpoint, rho, theta) ==
  LET e0 == endpoint[1]
      e1 == endpoint[2]
  IN  IF (e0[1] = 0 /\ e0[2] = 0) \/ (e1[1] = 0 /\ e1[2] = 0) THEN <<>>
      ELSE <<e0[1], e0[2], e1[1], e1[2], e0[3], e1[3], e0[4], e1[4], rho, theta>>

\* the vote of the point sampled at idx: the accumulator and the
\* de-accumulator after it, and the candidate line
SeedVote(idx) ==
  LET x == coords[idx + 1][1]
      y == coords[idx + 1][2]
      voted == AccuAdd(accu, x, y, 1)
      v == Vote(voted, x, y)
  IN  [accu |-> voted, deaccu |-> Append(deaccu, <<x, y>>),
       max_val |-> v.max_val, rho |-> v.rho, theta |-> v.theta]

\* the rest of the iteration for a seed whose vote sv reached the threshold:
\* corridor walk, un-vote, and the outline if there is one
SeedLine(idx, sv, nanv) ==
  LET c == Corridor(idx, sv.rho, sv.theta, nanv)
      u == Unvote(sv.accu, sv.deaccu, sv.rho, sv.theta, nanv)
      outline == Outline(c.endpoint, sv.rho, sv.theta)
  IN  [coords |-> c.coords, data |-> c.data, accu |-> u.accu, deaccu |-> u.deaccu,
       outlines |-> IF outline = <<>> THEN outlines ELSE Append(outlines, outline),
       outhit_idx |-> IF outline # <<>> /\ save_hits
                      THEN Append(outhit_idx, c.lines_idx) ELSE outhit_idx]

\* every ++(adata[r][j]) of the vote of the point (x, y) is inside accu
VoteInAccu(x, y) ==
  \E rs \in {Rhos(x, y)} : \A j \in 1..accu_w : RowInAccu(rs[j])

\* one iteration of the point loop. A vote outside accu writes to memory that
\* is not the accumulator's: what the call does from there on is undefined,
\* and it is followed no further (pc = "ub")
HoughSeed ==
  /\ pc = "hough"
  /\ count > 0
  /\ \E idx \in 0..(count - 1) :
       IF coords[idx + 1] = <<>>
       THEN /\ count' = count - 1
            /\ UNCHANGED <<pc, coords, data, deaccu, outlines, outhit_idx, accu>>
       ELSE IF ~VoteInAccu(coords[idx + 1][1], coords[idx + 1][2])
       THEN /\ pc' = "ub"
            /\ UNCHANGED <<count, coords, data, deaccu, outlines, outhit_idx, accu>>
       ELSE /\ count' = count - 1
            /\ pc' = pc
            /\ \E sv \in {SeedVote(idx)} :
                 IF sv.max_val < cfg.fHoughThreshold
                 THEN /\ coords' = [coords EXCEPT ![idx + 1] = <<>>]
                      /\ accu' = sv.accu
                      /\ deaccu' = sv.deaccu
                      /\ UNCHANGED <<data, outlines, outhit_idx>>
                 ELSE \E nanv \in (IF sv.theta = 0 THEN UBNaN ELSE {0}) :
                        \E r \in {SeedLine(idx, sv, nanv)} :
                           /\ coords' = r.coords
                           /\ data' = r.data
                           /\ accu' = r.accu
                           /\ deaccu' = r.deaccu
                           /\ outlines' = r.outlines
                           /\ outhit_idx' = r.outhit_idx
  /\ UNCHANGED <<call, cfg, hitlist, hit, lines, hit_idx, save_hits, fe,
                 geoVars, muonVars, outVars>>

----------------------------------------------------------------------------
(* Hough(): "combine lines that are split" *)

\* the counter of the four proximity tests for endpoint k of si and
\* endpoint l of sj
MergeCounter(si, sj, k, l) ==
  LET xi == si[1 + 2 * k]
      yi == si[2 + 2 * k]
      xj == sj[1 + 2 * l]
      yj == sj[2 + 2 * l]
  IN    (IF xi < xj + var /\ xi > xj - var THEN 1 ELSE 0)
      + (IF yi < yj + var /\ yi > yj - var THEN 1 ELSE 0)
      + (IF si[9] < sj[9] + rho_var /\ si[9] > sj[9] - rho_var THEN 1 ELSE 0)
      + (IF si[10] < sj[10] + theta_var /\ si[10] > sj[10] - theta_var THEN 1 ELSE 0)

\* the assignments of the four (k, l) branches
MergeInto(si, sj, k, l) ==
  IF k = 0
  THEN (IF l = 0 THEN [sj EXCEPT ![3] = si[1], ![4] = si[2]]
        ELSE [sj EXCEPT ![1] = si[1], ![2] = si[2]])
  ELSE (IF l = 0 THEN [sj EXCEPT ![3] = si[3], ![4] = si[4]]
        ELSE [sj EXCEPT ![1] = si[3], ![2] = si[4]])

\* the (j, k, l) the loops reach first with counter >= 3
MergeFirst(outl, i) ==
  LET c == {<<j, k, l>> \in ((i + 1)..Len(outl)) \X (0..1) \X (0..1) :
               MergeCounter(outl[i], outl[j], k, l) >= 3}
  IN  IF c = {} THEN <<>>
      ELSE CHOOSE t \in c : \A t2 \in c :
             t[1] * 4 + t[2] * 2 + t[3] <= t2[1] * 4 + t2[2] * 2 + t2[3]

\* variant of MergeStep: segment i and its member list are not cleared
MergeStepKeep(m, i, t, sh) ==
  LET j == t[1]
  IN  [outlines |-> [m.outlines EXCEPT
                       ![j] = MergeInto(m.outlines[i], m.outlines[j], t[2], t[3])],
       outhit_idx |-> IF sh
                      THEN [m.outhit_idx EXCEPT ![j] = m.outhit_idx[j] \o m.outhit_idx[i]]
                      ELSE m.outhit_idx]

\* the body of "if (counter >= 3)" for segment i and the match t = <<j, k, l>>:
\* segment j takes an endpoint of segment i, segment i is cleared, and with
\* save_hits its member list goes to the end of that of segment j
MergeStep(m, i, t, sh) ==
  LET j == t[1]
  IN  [outlines |-> [m.outlines EXCEPT
                       ![j] = MergeInto(m.outlines[i], m.outlines[j], t[2], t[3]),
                       ![i] = <<>>],
       outhit_idx |-> IF sh
                      THEN [m.outhit_idx EXCEPT ![j] = m.outhit_idx[j] \o m.outhit_idx[i],
                                                ![i] = <<>>]
                      ELSE m.outhit_idx]

\* the i loop from segment i on; m holds outlines and outhit_idx
RECURSIVE MergeFrom(_, _, _)
MergeFrom(m, i, sh) ==
  IF i > Len(m.outlines) THEN m
  ELSE
    LET t == MergeFirst(m.outlines, i)
    IN  IF t = <<>> THEN MergeFrom(m, i + 1, sh)
        ELSE MergeFrom(MergeStep(m, i, t, sh), i + 1, sh)

MergePass(outl, outh, sh) == MergeFrom([outlines |-> outl, outhit_idx |-> outh], 1, sh)

HoughMerge ==
  /\ pc = "hough"
  /\ count = 0
  /\ LET m == MergePass(outlines, outhit_idx, save_hits)
     IN  /\ outlines' = m.outlines
         /\ outhit_idx' = m.outhit_idx
  /\ pc' = "filter"
  /\ UNCHANGED <<call, cfg, hitlist, hit, lines, hit_idx, coords, data, deaccu, count,
                 accu, save_hits, fe, geoVars, muonVars, outVars>>

----------------------------------------------------------------------------
(* Hough(): the length filter and the return *)

\* Distance(x1, y1, x2, y2) > min_length, on the squares
LongerThan(x1, y1, x2, y2, len) ==
  len < 0 \/ (x2 - x1) * (x2 - x1) + (y2 - y1) * (y2 - y1) > len * len

KeepLine(s) ==
  IF cfg.fHoughMuonLength # 0
  THEN Abs(s[2] - s[4]) > cfg.fHoughMuonLength
  ELSE LongerThan(s[1], s[2], s[3], s[4], cfg.fHoughMinLength)

\* the indices of the outlines that are pushed to lines, in order
RECURSIVE KeptFrom(_, _)
KeptFrom(outl, i) ==
  IF i > Len(outl) THEN <<>>
  ELSE IF outl[i] # <<>> /\ KeepLine(outl[i]) THEN <<i>> \o KeptFrom(outl, i + 1)
  ELSE KeptFrom(outl, i + 1)

HoughFilter ==
  /\ pc = "filter"
  /\ LET kept == KeptFrom(outlines, 1)
     IN  /\ lines' = [lines EXCEPT ![call] = @ \o [n \in 1..Len(kept) |-> outlines[kept[n]]]]
         /\ hit_idx' = IF save_hits
                       THEN [hit_idx EXCEPT
                               ![call] = @ \o [n \in 1..Len(kept) |-> outhit_idx[kept[n]]]]
                       ELSE hit_idx
  /\ coords' = <<>>
  /\ data' = <<>>
  /\ deaccu' = <<>>
  /\ outlines' = <<>>
  /\ outhit_idx' = <<>>
  /\ accu' = EmptyAccu
  /\ pc' = "ret"
  /\ UNCHANGED <<call, cfg, hitlist, hit, count, save_hits, fe, geoVars, muonVars, outVars>>

----------------------------------------------------------------------------
(* Configuration and inputs *)

Calls == {"02", "12", "00", "01", "10", "11"}

\* values of the fcl parameters
ThresholdVals  == {2, 4}
MaxGapVals     == {1, 2}
RangeVals      == {1}
MinLengthVals  == {0}
MuonLengthVals == {0, 1}
EndpointRangeVals == {2}
KeepTypeVals   == {{0, 1, 2, 3, 4, 5}}

Configs ==
  [fHoughThreshold : ThresholdVals, fHoughMaxGap : MaxGapVals, fHoughRange : RangeVals,
   fHoughMinLength : MinLengthVals, fHoughMuonLength : MuonLengthVals,
   fEndpointRange : EndpointRangeVals, fKeepMuonTypes : KeepTypeVals]

NoLines == [c \in Calls |-> <<>>]
NoFe == [col |-> "", ind |-> "", i |-> 0, j |-> 0, tested |-> FALSE,
         endpoint1 |-> <<0, 0, 0>>, endpoint2 |-> <<0, 0, 0>>]
NoGeo == [c \in {} |-> 0]

\* the locals of a Hough call on bucket b: "vector<vector<int>> data = coords",
\* a zeroed accumulator, count = coords.size()
HoughEnter(b, sh) ==
  /\ coords' = b
  /\ data' = b
  /\ deaccu' = <<>>
  /\ outlines' = <<>>
  /\ outhit_idx' = <<>>
  /\ count' = Len(b)
  /\ accu' = EmptyAccu
  /\ save_hits' = sh

----------------------------------------------------------------------------
(* The line finder alone: one Hough call on a collection bucket of tpc 0 *)

\* every list of at most MaxPts collection hits of tpc 0
RECURSIVE HitLists(_)
HitLists(n) ==
  IF n = 0 THEN {<<>>}
  ELSE LET shorter == HitLists(n - 1)
       IN  shorter \cup
           {Append(l, [wire |-> v[1], PeakTime |-> v[2], plane |-> 2, tpc |-> 0]) :
              l \in {s \in shorter : Len(s) = n - 1}, v \in HitVals}

\* the hits of a track on a plane of a tpc
TrackHits(tr, plane, tpc) ==
  [k \in 1..Len(tr) |-> [wire |-> tr[k][1], PeakTime |-> tr[k][2], plane |-> plane, tpc |-> tpc]]

\* two tracks of collection hits of tpc 0, one after the other
TrackPairs == {TrackHits(a, 2, 0) \o TrackHits(b, 2, 0) : a \in TrackVals, b \in TrackVals}

\* int(hitlist[i]->PeakTime()): the fraction is dropped, toward zero
IntPeakTime(ht) ==
  IF ht.PeakTime >= 0 THEN ht.PeakTime \div 2 ELSE -((-ht.PeakTime) \div 2)

\* the bucket produce() builds from the hits of one plane and tpc
RECURSIVE Bucket(_, _, _, _)
Bucket(hl, plane, tpc, n) ==
  IF n = 0 THEN <<>>
  ELSE LET b == Bucket(hl, plane, tpc, n - 1)
           ht == hl[n]
           hit_peakT == IntPeakTime(ht)
       IN  IF ht.plane = plane /\ ht.tpc = tpc /\ hit_peakT > 0
           THEN Append(b, <<ht.wire, hit_peakT, n - 1>>)
           ELSE b

\* the state when Hough(hit_02, ...) is entered for the hits hl under the
\* configuration c
HoughStart(hl, c) ==
  /\ pc = "hough"
  /\ call = "02"
  /\ cfg = c
  /\ hitlist = hl
  /\ hit = [NoLines EXCEPT !["02"] = Bucket(hl, 2, 0, Len(hl))]
  /\ lines = NoLines
  /\ hit_idx = [b \in {"02", "12"} |-> <<>>]
  /\ coords = hit["02"]
  /\ data = hit["02"]
  /\ deaccu = <<>>
  /\ outlines = <<>>
  /\ outhit_idx = <<>>
  /\ count = Len(hit["02"])
  /\ accu = EmptyAccu
  /\ save_hits = TRUE
  /\ fe = NoFe
  /\ wireIsect = NoGeo
  /\ wireEnds = NoGeo
  /\ muon_endpoints = <<>>
  /\ muon_hitpeakT = <<>>
  /\ muon_hit_idx = <<>>
  /\ muon_type = <<>>
  /\ muon_t0 = <<>>
  /\ muon_trajectories = <<>>
  /\ muon_tracks = <<>>
  /\ muon_tracks_assn = <<>>

\* one track of collection hits of tpc 0: a bucket of points on one straight line
TrackSingles == {TrackHits(a, 2, 0) : a \in TrackVals}

\* the buckets of whole tracks: one track, two tracks one after the other, and
\* the line with a gap
TrackLists == TrackPairs \cup TrackSingles \cup {TrackHits(GapTrack, 2, 0)}

InitHough ==
  \E c \in Configs, hl \in HitLists(MaxPts) \cup TrackLists : HoughStart(hl, c)

NextHough == HoughSeed \/ HoughMerge \/ HoughFilter

SpecHough == InitHough /\ [][NextHough]_vars

\* the line finder on the buckets of whole tracks only
\* with every line kept by the final filter
TrackConfigs == {c \in Configs : c.fHoughMuonLength = 0 /\ c.fHoughMinLength = 0}

InitTracks == \E c \in TrackConfigs, hl \in TrackLists : HoughStart(hl, c)

SpecTracks == InitTracks /\ [][NextHough]_vars

----------------------------------------------------------------------------
(* The merge pass on buckets of three tracks: one Hough call with the      *)
(* corridor of the events                                                  *)

\* the hits of the tracks that start at the hits of v
MergeHits(v) ==
  TrackHits(MergeTrack(v[1]), 2, 0) \o TrackHits(MergeTrack(v[2]), 2, 0)
    \o TrackHits(MergeTrack(v[3]), 2, 0)

MergeConfigs ==
  [fHoughThreshold : {2}, fHoughMaxGap : {2}, fHoughRange : {30},
   fHoughMinLength : {0}, fHoughMuonLength : {0},
   fEndpointRange : EndpointRangeVals, fKeepMuonTypes : {{0, 1, 2, 3, 4, 5}}]

InitMerge == \E c \in MergeConfigs, v \in MergeVals : HoughStart(MergeHits(v), c)

SpecMerge == InitMerge /\ [][NextHough]_vars

----------------------------------------------------------------------------
(* The line finder at the limits of its input: hits at the ends of the wire *)
(* and time ranges and beyond the time range, thresholds and gaps from zero *)

\* every list of at most MaxPts such collection hits of tpc 0
RECURSIVE LimitLists(_)
LimitLists(n) ==
  IF n = 0 THEN {<<>>}
  ELSE LET shorter == LimitLists(n - 1)
       IN  shorter \cup
           {Append(l, [wire |-> v[1], PeakTime |-> v[2], plane |-> 2, tpc |-> 0]) :
              l \in {s \in shorter : Len(s) = n - 1}, v \in LimitVals}

LimitConfigs ==
  [fHoughThreshold : {0, 2}, fHoughMaxGap : {0, 1}, fHoughRange : RangeVals,
   fHoughMinLength : MinLengthVals, fHoughMuonLength : {0},
   fEndpointRange : EndpointRangeVals, fKeepMuonTypes : KeepTypeVals]

InitLimit == \E c \in LimitConfigs, hl \in LimitLists(MaxPts) : HoughStart(hl, c)

SpecLimit == InitLimit /\ [][NextHough]_vars

----------------------------------------------------------------------------
(* 3D points, in units of 0.001 cm; a default-constructed geo::Point_t is   *)
(* the origin                                                              *)

Origin == <<0, 0, 0>>

\* Mag2() != 0: x*x + y*y + z*z is zero for the origin only
Mag2NonZero(p) == p[1] # 0 \/ p[2] # 0 \/ p[3] # 0

\* geo::WireID of a hit
WireID(ht) == <<ht.tpc, ht.plane, ht.wire>>

----------------------------------------------------------------------------
(* The geometry service (external): its answers are inputs, fixed for a    *)
(* pair of wires once given                                                *)

\* x of the wire planes of a tpc
PlaneX(tpc) == IF tpc = 0 THEN -201450 ELSE 201450

\* where the wires of wire number 1000 may cross, <<y, z>>: inside the volume,
\* on the top, on the bottom, upstream and downstream
IsectYZ == {<<0, 250000>>, <<199000, 250000>>, <<-199000, 250000>>, <<0, 3000>>, <<0, 505000>>}

\* the point of a crossing: 0.3 cm along z per collection wire, and along y
\* with the distance of the wire numbers; different wires cross at different
\* points
IsectPoint(wire_col, wire_ind, yz) ==
  <<PlaneX(wire_col[1]), yz[1] + 173 * (wire_ind[3] - wire_col[3]),
    yz[2] + 300 * (wire_col[3] - 1000)>>

\* what WireIDsIntersect(wire_col, wire_ind, point) may answer
IsectVals(wire_col, wire_ind) ==
  {[ok |-> FALSE, point |-> Origin]} \cup
  {[ok |-> TRUE, point |-> IsectPoint(wire_col, wire_ind, yz)] : yz \in IsectYZ}

\* what WireEndPoints(wire, end1, end2) may answer: a collection wire runs from
\* bottom to top at its z; an induction wire ends on the top or bottom at one
\* of its ends, or on neither
EndVals(wire) ==
  LET x == PlaneX(wire[1])
      dz == 300 * (wire[3] - 1000)
  IN  IF wire[2] = 2
      THEN {<<<<x, -199792, 250000 + dz>>, <<x, 199792, 250000 + dz>>>>}
      ELSE {<<<<x, 199792, 252000 + dz>>, <<x, 0, 0>>>>,
            <<<<x, 150000, 500000>>, <<x, -199792, 290000 + dz>>>>,
            <<<<x, 150000, 500000>>, <<x, -199792, 248000 + dz>>>>,
            <<<<x, 150000, 500000>>, <<x, -150000, 0>>>>}

\* the answers consistent with the ones given so far
Answers(memo, key, vals) == IF key \in DOMAIN memo THEN {memo[key]} ELSE vals

Remember(memo, key, val) ==
  [k \in (DOMAIN memo) \cup {key} |-> IF k = key THEN val ELSE memo[k]]

\* variant of FixEndpoints: the distance along z is not tested
FixEndpointsNoDistance(col, ind, point) ==
  LET col_end1 == col[1]
      ind_end1 == ind[1]
      ind_end2 == ind[2]
      ind_y == IF Abs(ind_end1[2]) = 199792 THEN ind_end1[2] ELSE ind_end2[2]
      ind_z == IF Abs(ind_end1[2]) = 199792 THEN ind_end1[3] ELSE ind_end2[3]
  IN  IF Abs(ind_end1[2]) > 198000 \/ Abs(ind_end2[2]) > 198000
      THEN [pass |-> TRUE, point |-> <<col_end1[1], ind_y, ind_z>>]
      ELSE [pass |-> FALSE, point |-> point]

\* FixEndpoints(wire_col, wire_ind, point) on the wire ends col and ind
FixEndpoints(col, ind, point) ==
  LET col_end1 == col[1]
      ind_end1 == ind[1]
      ind_end2 == ind[2]
      ind_y == IF Abs(ind_end1[2]) = 199792 THEN ind_end1[2] ELSE ind_end2[2]
      ind_z == IF Abs(ind_end1[2]) = 199792 THEN ind_end1[3] ELSE ind_end2[3]
  IN  IF (Abs(ind_end1[2]) > 198000 \/ Abs(ind_end2[2]) > 198000)
         /\ Abs(col_end1[3] - ind_z) < 8000
      THEN [pass |-> TRUE, point |-> <<col_end1[1], ind_y, ind_z>>]
      ELSE [pass |-> FALSE, point |-> point]

\* endpoint1 (or endpoint2) after the intersection answer isect and, when it
\* failed, the fix
Resolve(isect, fix) ==
  IF isect.ok THEN isect.point
  ELSE IF fix.pass THEN fix.point
  ELSE Origin

\* variant of BothResolved: one resolved endpoint is enough
EitherResolved(endpoint1, endpoint2) == Mag2NonZero(endpoint1) \/ Mag2NonZero(endpoint2)

\* the test that guards the push_back of a pair
BothResolved(endpoint1, endpoint2) == Mag2NonZero(endpoint1) /\ Mag2NonZero(endpoint2)

----------------------------------------------------------------------------
(* FindEndpoints(lines_col, lines_ind, hit_idx, range, hitlist, ...)       *)

\* peakT0, peakT1, wire0, wire1 of a line: the end with the lower peak time
\* first
Ordered(line) ==
  IF line[2] < line[4] THEN <<line[2], line[4], line[5], line[6]>>
  ELSE <<line[4], line[2], line[6], line[5]>>

\* the peak-time test of a primary line c and a secondary line d
TimesMatch(c, d, range) == Abs(c[1] - d[1]) < range /\ Abs(c[2] - d[2]) < range

\* variant of Consume: the matched line is left as it is
ConsumeNothing(lines_col, i) == lines_col

\* lines_col.at(i).clear()
Consume(lines_col, i) == [lines_col EXCEPT ![i + 1] = <<>>]

\* variant of NextCandidate: the scan of a primary line ends after its first
\* secondary line
RECURSIVE NextPrimary(_, _, _, _)
NextPrimary(lines_col, lines_ind, i, j) ==
  IF i >= Len(lines_col) THEN <<Len(lines_col), 0>>
  ELSE IF lines_col[i + 1] = <<>> \/ j > 0
  THEN NextPrimary(lines_col, lines_ind, i + 1, 0)
  ELSE <<i, j>>

\* the (i, j) the loops evaluate next, from (i, j) on: cleared primary lines
\* are skipped; i = lines_col.size() when the loops are over
RECURSIVE NextCandidate(_, _, _, _)
NextCandidate(lines_col, lines_ind, i, j) ==
  IF i >= Len(lines_col) THEN <<Len(lines_col), 0>>
  ELSE IF lines_col[i + 1] = <<>> \/ j >= Len(lines_ind)
  THEN NextCandidate(lines_col, lines_ind, i + 1, 0)
  ELSE <<i, j>>

\* the call: nothing is scanned when lines_ind is empty
FindEndpointsEnter(col, ind) ==
  LET first == IF lines[ind] = <<>> THEN <<Len(lines[col]), 0>>
               ELSE NextCandidate(lines[col], lines[ind], 0, 0)
  IN  /\ fe' = [col |-> col, ind |-> ind, i |-> first[1], j |-> first[2],
                tested |-> FALSE, endpoint1 |-> Origin, endpoint2 |-> Origin]
      /\ pc' = "match"

\* one endpoint: WireIDsIntersect and, when it fails, FixEndpoints; every
\* answer the service may give, with the answers it has then given
Resolutions(wI, wE, wire_col, wire_ind) ==
  LET key == <<wire_col, wire_ind>>
  IN  UNION {IF isect.ok
             THEN {[endpoint |-> Resolve(isect, [pass |-> FALSE, point |-> Origin]),
                    wireIsect |-> Remember(wI, key, isect), wireEnds |-> wE]}
             ELSE {[endpoint |-> Resolve(isect, FixEndpoints(ce, ie, isect.point)),
                    wireIsect |-> Remember(wI, key, isect),
                    wireEnds |-> Remember(Remember(wE, wire_col, ce), wire_ind, ie)] :
                     ce \in Answers(wE, wire_col, EndVals(wire_col)),
                     ie \in Answers(wE, wire_ind, EndVals(wire_ind))}
             : isect \in Answers(wI, key, IsectVals(wire_col, wire_ind))}

\* the body of the j loop for the candidate (fe.i, fe.j)
FindEndpointsStep ==
  /\ pc = "match"
  /\ fe.i < Len(lines[fe.col])
  /\ LET c == Ordered(lines[fe.col][fe.i + 1])
         d == Ordered(lines[fe.ind][fe.j + 1])
     IN  IF ~TimesMatch(c, d, cfg.fEndpointRange)
         THEN /\ LET n == NextCandidate(lines[fe.col], lines[fe.ind], fe.i, fe.j + 1)
                 IN  fe' = [fe EXCEPT !.i = n[1], !.j = n[2], !.tested = FALSE,
                                      !.endpoint1 = Origin, !.endpoint2 = Origin]
              /\ UNCHANGED <<lines, geoVars, muon_endpoints, muon_hitpeakT, muon_hit_idx>>
         ELSE \E a \in Resolutions(wireIsect, wireEnds,
                                   WireID(hitlist[c[3] + 1]), WireID(hitlist[d[3] + 1])) :
              \E b \in Resolutions(a.wireIsect, a.wireEnds,
                                   WireID(hitlist[c[4] + 1]), WireID(hitlist[d[4] + 1])) :
                /\ wireIsect' = b.wireIsect
                /\ wireEnds' = b.wireEnds
                /\ IF BothResolved(a.endpoint, b.endpoint)
                   THEN /\ muon_endpoints' = Append(muon_endpoints, <<a.endpoint, b.endpoint>>)
                        /\ muon_hitpeakT' = Append(muon_hitpeakT, <<c[1], c[2]>>)
                        /\ muon_hit_idx' = Append(muon_hit_idx, hit_idx[fe.col][fe.i + 1])
                        /\ lines' = [lines EXCEPT ![fe.col] = Consume(@, fe.i)]
                   ELSE UNCHANGED <<lines, muon_endpoints, muon_hitpeakT, muon_hit_idx>>
                /\ LET n == NextCandidate(lines'[fe.col], lines[fe.ind], fe.i, fe.j + 1)
                   IN  fe' = [fe EXCEPT !.i = n[1], !.j = n[2], !.tested = TRUE,
                                        !.endpoint1 = a.endpoint, !.endpoint2 = b.endpoint]
  /\ UNCHANGED <<pc, call, cfg, hitlist, hit, hit_idx, houghVars, muon_type, muon_t0,
                 muon_trajectories, outVars>>

----------------------------------------------------------------------------
(* SortEndpoints, FindTrajectories, Findt0                                 *)

\* dx = dt*0.5*0.16 cm
DriftDx(dt) == dt * 80

\* Y() > 198 || Y() < -198 || Z() > 503 || Z() < 6
OnEdge(p) == p[2] > 198000 \/ p[2] < -198000 \/ p[3] > 503000 \/ p[3] < 6000

\* true_x = (X() > 0) ? (202.05 - dx) : (-202.05 + dx)
TrueX(p, dt) == IF p[1] > 0 THEN 202050 - DriftDx(dt) ELSE -202050 + DriftDx(dt)

\* variant of SortOne: the single-edge tests come before the long-crossing test
SortOneEdgeFirst(pair, peakT) ==
  LET endpoint1 == pair[1]
      endpoint2 == pair[2]
      dt == peakT[2] - peakT[1]
      end1_edge == OnEdge(endpoint1)
      end2_edge == OnEdge(endpoint2)
  IN  IF ~end1_edge /\ end2_edge
      THEN [type |-> 1, endpoint1 |-> endpoint1,
            endpoint2 |-> [endpoint2 EXCEPT ![1] = TrueX(endpoint2, dt)]]
      ELSE IF end1_edge /\ ~end2_edge
      THEN [type |-> 2, endpoint1 |-> [endpoint1 EXCEPT ![1] = TrueX(endpoint1, dt)],
            endpoint2 |-> [endpoint2 EXCEPT ![1] = 0]]
      ELSE IF dt > 2400
      THEN [type |-> 0, endpoint1 |-> endpoint1, endpoint2 |-> [endpoint2 EXCEPT ![1] = 0]]
      ELSE IF (endpoint1[2] > 198000 /\ endpoint2[2] < -198000)
              \/ (endpoint1[2] < -198000 /\ endpoint2[2] > 198000)
      THEN [type |-> 3, endpoint1 |-> endpoint1, endpoint2 |-> endpoint2]
      ELSE IF (endpoint1[3] > 503000 /\ endpoint2[3] < 6000)
              \/ (endpoint1[3] < 6000 /\ endpoint2[3] > 503000)
      THEN [type |-> 4, endpoint1 |-> endpoint1, endpoint2 |-> endpoint2]
      ELSE [type |-> 5, endpoint1 |-> endpoint1, endpoint2 |-> endpoint2]

\* the body of the loop of SortEndpoints for one pair: the type pushed and the
\* locals endpoint1 and endpoint2 when the body ends
SortOne(pair, peakT) ==
  LET endpoint1 == pair[1]
      endpoint2 == pair[2]
      dt == peakT[2] - peakT[1]
      end1_edge == OnEdge(endpoint1)
      end2_edge == OnEdge(endpoint2)
  IN  IF dt > 2400
      THEN [type |-> 0, endpoint1 |-> endpoint1, endpoint2 |-> [endpoint2 EXCEPT ![1] = 0]]
      ELSE IF ~end1_edge /\ end2_edge
      THEN [type |-> 1, endpoint1 |-> endpoint1,
            endpoint2 |-> [endpoint2 EXCEPT ![1] = TrueX(endpoint2, dt)]]
      ELSE IF end1_edge /\ ~end2_edge
      THEN [type |-> 2, endpoint1 |-> [endpoint1 EXCEPT ![1] = TrueX(endpoint1, dt)],
            endpoint2 |-> [endpoint2 EXCEPT ![1] = 0]]
      ELSE IF (endpoint1[2] > 198000 /\ endpoint2[2] < -198000)
              \/ (endpoint1[2] < -198000 /\ endpoint2[2] > 198000)
      THEN [type |-> 3, endpoint1 |-> endpoint1, endpoint2 |-> endpoint2]
      ELSE IF (endpoint1[3] > 503000 /\ endpoint2[3] < 6000)
              \/ (endpoint1[3] < 6000 /\ endpoint2[3] > 503000)
      THEN [type |-> 4, endpoint1 |-> endpoint1, endpoint2 |-> endpoint2]
      ELSE [type |-> 5, endpoint1 |-> endpoint1, endpoint2 |-> endpoint2]

\* variant of SortFrom: the long-crossing branch lacks its "continue" and
\* goes on to the edge tests
RECURSIVE SortFromFallThrough(_, _, _, _)
SortFromFallThrough(endpoints, peakTs, types, i) ==
  IF i > Len(endpoints) THEN types
  ELSE LET long == peakTs[i][2] - peakTs[i][1] > 2400
           t == SortOne(endpoints[i], <<0, 0>>).type
       IN  SortFromFallThrough(endpoints, peakTs,
                               (IF long THEN Append(types, 0) ELSE types) \o <<t>>, i + 1)

\* the loop from pair i on: one push_back to muon_type per pair. endpoint1 and
\* endpoint2 are copies of the elements of muon_endpoints ("geo::Point_t
\* endpoint1 = (muon_endpoints.at(i)).at(0), ..."), so what SetX does to them
\* ends with the iteration
RECURSIVE SortFrom(_, _, _, _)
SortFrom(endpoints, peakTs, types, i) ==
  IF i > Len(endpoints) THEN types
  ELSE SortFrom(endpoints, peakTs, Append(types, SortOne(endpoints[i], peakTs[i]).type), i + 1)

SortEndpoints ==
  /\ pc = "sort"
  /\ muon_type' = SortFrom(muon_endpoints, muon_hitpeakT, muon_type, 1)
  /\ pc' = "trajectories"
  /\ UNCHANGED <<call, cfg, hitlist, hit, lines, hit_idx, houghVars, fe, geoVars,
                 muon_endpoints, muon_hitpeakT, muon_hit_idx, muon_t0, muon_trajectories,
                 outVars>>

\* float(v) of a double on the 0.001 cm grid: 24 bits of mantissa
RECURSIVE FloatStep(_)
FloatStep(n) == IF n < 16777216 THEN 1 ELSE 2 * FloatStep(n \div 2)

Float(v) == RoundDiv(v, FloatStep(Abs(v))) * FloatStep(Abs(v))

\* the arguments of atan2 for theta_xz and theta_yz
Trajectory(pair, peakT) ==
  LET dx == DriftDx(peakT[2] - peakT[1])
      dy == Float(pair[2][2]) - Float(pair[1][2])
      dz == Float(pair[2][3]) - Float(pair[1][3])
  IN  <<<<dx, dz>>, <<dy, dz>>>>

FindTrajectories ==
  /\ pc = "trajectories"
  /\ muon_trajectories' =
       muon_trajectories \o
       [i \in 1..Len(muon_endpoints) |-> Trajectory(muon_endpoints[i], muon_hitpeakT[i])]
  /\ pc' = "t0"
  /\ UNCHANGED <<call, cfg, hitlist, hit, lines, hit_idx, houghVars, fe, geoVars,
                 muon_endpoints, muon_hitpeakT, muon_hit_idx, muon_type, muon_t0, outVars>>

\* variant of T0: type 2 is timed from the early sample as well
T0FromEarly(peakT, type) ==
  IF type = 0 \/ type = 1 \/ type = 2 THEN peakT[1] - 500 ELSE -1000

\* t0, in units of 0.5
T0(peakT, type) ==
  IF type = 0 \/ type = 1 THEN peakT[1] - 500
  ELSE IF type = 2 THEN peakT[2] - 3000
  ELSE -1000

Findt0 ==
  /\ pc = "t0"
  /\ muon_t0' = muon_t0 \o [i \in 1..Len(muon_hitpeakT) |-> T0(muon_hitpeakT[i], muon_type[i])]
  /\ pc' = "tracks"
  /\ UNCHANGED <<call, cfg, hitlist, hit, lines, hit_idx, houghVars, fe, geoVars,
                 muon_endpoints, muon_hitpeakT, muon_hit_idx, muon_type, muon_trajectories,
                 outVars>>

----------------------------------------------------------------------------
(* produce()                                                               *)

MuonInTpc0 == lines["02"] # <<>>
MuonInTpc1 == lines["12"] # <<>>

\* ResetCollectionHitVectors, the hits to the collection buckets, then
\* Hough(hit_02, ..., lines_02, hit_idx_02)
ProduceCollect ==
  /\ pc = "start"
  /\ hit' = [hit EXCEPT !["02"] = Bucket(hitlist, 2, 0, Len(hitlist)),
                        !["12"] = Bucket(hitlist, 2, 1, Len(hitlist))]
  /\ lines' = [lines EXCEPT !["02"] = <<>>, !["12"] = <<>>]
  /\ hit_idx' = [c \in {"02", "12"} |-> <<>>]
  /\ HoughEnter(hit'["02"], TRUE)
  /\ call' = "02"
  /\ pc' = "hough"
  /\ UNCHANGED <<cfg, hitlist, fe, geoVars, muonVars, outVars>>

\* Hough(hit_12, ..., lines_12, hit_idx_12)
ProduceHough12 ==
  /\ pc = "ret"
  /\ call = "02"
  /\ HoughEnter(hit["12"], TRUE)
  /\ call' = "12"
  /\ pc' = "hough"
  /\ UNCHANGED <<cfg, hitlist, hit, lines, hit_idx, fe, geoVars, muonVars, outVars>>

\* the induction buckets: those of tpc 0 when a muon was found in tpc 0,
\* otherwise ("else if") those of tpc 1 when one was found there
InductionHits ==
  LET n == Len(hitlist)
  IN  IF MuonInTpc0
      THEN [hit EXCEPT !["00"] = Bucket(hitlist, 0, 0, n), !["01"] = Bucket(hitlist, 1, 0, n),
                       !["10"] = <<>>, !["11"] = <<>>]
      ELSE IF MuonInTpc1
      THEN [hit EXCEPT !["00"] = <<>>, !["01"] = <<>>,
                       !["10"] = Bucket(hitlist, 0, 1, n), !["11"] = Bucket(hitlist, 1, 1, n)]
      ELSE [hit EXCEPT !["00"] = <<>>, !["01"] = <<>>, !["10"] = <<>>, !["11"] = <<>>]

\* variant of ProduceInduction: ResetMuonVariables is left out
ProduceInductionKeepMuons ==
  /\ pc = "ret"
  /\ call = "12"
  /\ hit' = InductionHits
  /\ IF MuonInTpc0
     THEN HoughEnter(hit'["00"], FALSE) /\ call' = "00" /\ pc' = "hough"
     ELSE IF MuonInTpc1
     THEN HoughEnter(hit'["10"], FALSE) /\ call' = "10" /\ pc' = "hough"
     ELSE UNCHANGED <<houghVars, call>> /\ pc' = "put"
  /\ lines' = [lines EXCEPT !["00"] = <<>>, !["01"] = <<>>, !["10"] = <<>>, !["11"] = <<>>]
  /\ UNCHANGED <<cfg, hitlist, hit_idx, fe, geoVars, muonVars, outVars>>

\* after both collection calls: the resets, the induction hits and the first
\* induction call, or the end when no muon was found
ProduceInduction ==
  /\ pc = "ret"
  /\ call = "12"
  /\ hit' = InductionHits
  /\ muon_endpoints' = <<>>
  /\ muon_hitpeakT' = <<>>
  /\ muon_hit_idx' = <<>>
  /\ muon_type' = <<>>
  /\ muon_t0' = <<>>
  /\ muon_trajectories' = <<>>
  /\ IF MuonInTpc0
     THEN HoughEnter(hit'["00"], FALSE) /\ call' = "00" /\ pc' = "hough"
     ELSE IF MuonInTpc1
     THEN HoughEnter(hit'["10"], FALSE) /\ call' = "10" /\ pc' = "hough"
     ELSE UNCHANGED <<houghVars, call>> /\ pc' = "put"
  /\ lines' = [lines EXCEPT !["00"] = <<>>, !["01"] = <<>>, !["10"] = <<>>, !["11"] = <<>>]
  /\ UNCHANGED <<cfg, hitlist, hit_idx, fe, geoVars, outVars>>

\* the second induction call of a tpc
ProduceHoughSecond ==
  /\ pc = "ret"
  /\ call \in {"00", "10"}
  /\ call' = (IF call = "00" THEN "01" ELSE "11")
  /\ HoughEnter(hit[call'], FALSE)
  /\ pc' = "hough"
  /\ UNCHANGED <<cfg, hitlist, hit, lines, hit_idx, fe, geoVars, muonVars, outVars>>

\* FindEndpoints(lines_02, lines_00, ...) or FindEndpoints(lines_12, lines_10, ...)
ProduceMatchFirst ==
  /\ pc = "ret"
  /\ call \in {"01", "11"}
  /\ IF call = "01" THEN FindEndpointsEnter("02", "00") ELSE FindEndpointsEnter("12", "10")
  /\ UNCHANGED <<call, cfg, hitlist, hit, lines, hit_idx, houghVars, geoVars, muonVars, outVars>>

FindEndpointsOver == pc = "match" /\ fe.i >= Len(lines[fe.col])

\* FindEndpoints(lines_02, lines_01, ...) or FindEndpoints(lines_12, lines_11, ...)
ProduceMatchSecond ==
  /\ FindEndpointsOver
  /\ fe.ind \in {"00", "10"}
  /\ IF fe.ind = "00" THEN FindEndpointsEnter("02", "01") ELSE FindEndpointsEnter("12", "11")
  /\ UNCHANGED <<call, cfg, hitlist, hit, lines, hit_idx, houghVars, geoVars, muonVars, outVars>>

\* after the matching of tpc 0: the induction calls of tpc 1 when a muon was
\* found there too
ProduceTpc1 ==
  /\ FindEndpointsOver
  /\ fe.ind = "01"
  /\ MuonInTpc1
  /\ HoughEnter(hit["10"], FALSE)
  /\ call' = "10"
  /\ pc' = "hough"
  /\ UNCHANGED <<cfg, hitlist, hit, lines, hit_idx, fe, geoVars, muonVars, outVars>>

\* after the matching: on to the classification when a pair was found
ProduceMatched ==
  /\ FindEndpointsOver
  /\ fe.ind = "11" \/ (fe.ind = "01" /\ ~MuonInTpc1)
  /\ pc' = (IF muon_endpoints # <<>> THEN "sort" ELSE "put")
  /\ UNCHANGED <<call, cfg, hitlist, hit, lines, hit_idx, houghVars, fe, geoVars, muonVars,
                 outVars>>

\* variant of MuonTrack: endpoint2 is left default-constructed
MuonTrackOneEnd(i) ==
  LET endpoint1 == muon_endpoints[i][1]
      endpoint2 == Origin
  IN  [t0_us |-> muon_t0[i],
       x1_pos |-> Float(endpoint1[1]), y1_pos |-> Float(endpoint1[2]),
       z1_pos |-> Float(endpoint1[3]),
       x2_pos |-> Float(endpoint2[1]), y2_pos |-> Float(endpoint2[2]),
       z2_pos |-> Float(endpoint2[3]),
       theta_xz |-> muon_trajectories[i][1], theta_yz |-> muon_trajectories[i][2],
       tpc |-> (IF endpoint1[1] < 0 THEN 0 ELSE 1), type |-> muon_type[i]]

\* the MuonTrack of pair i
MuonTrack(i) ==
  LET endpoint1 == muon_endpoints[i][1]
      endpoint2 == muon_endpoints[i][2]
  IN  [t0_us |-> muon_t0[i],
       x1_pos |-> Float(endpoint1[1]), y1_pos |-> Float(endpoint1[2]),
       z1_pos |-> Float(endpoint1[3]),
       x2_pos |-> Float(endpoint2[1]), y2_pos |-> Float(endpoint2[2]),
       z2_pos |-> Float(endpoint2[3]),
       theta_xz |-> muon_trajectories[i][1], theta_yz |-> muon_trajectories[i][2],
       tpc |-> (IF endpoint1[1] < 0 THEN 0 ELSE 1), type |-> muon_type[i]]

\* CreateAssn(..., hitlist[hit_i], ...) for hit_i < track_hit_idx.size(): the
\* hits associated with track number n, by their position in hitlist
TrackAssns(track_hit_idx, n) ==
  [hit_i \in 1..Len(track_hit_idx) |-> [hit |-> hit_i - 1, track |-> n]]

\* the loop over the pairs, from pair i on; out holds muon_tracks and
\* muon_tracks_assn
RECURSIVE TracksFrom(_, _)
TracksFrom(out, i) ==
  IF i > Len(muon_endpoints) THEN out
  ELSE IF muon_type[i] \in cfg.fKeepMuonTypes
  THEN TracksFrom([muon_tracks |-> Append(out.muon_tracks, MuonTrack(i)),
                   muon_tracks_assn |->
                     out.muon_tracks_assn
                       \o TrackAssns(muon_hit_idx[i], Len(out.muon_tracks) + 1)],
                  i + 1)
  ELSE TracksFrom(out, i + 1)

ProduceTracks ==
  /\ pc = "tracks"
  /\ LET out == TracksFrom([muon_tracks |-> muon_tracks, muon_tracks_assn |-> muon_tracks_assn], 1)
     IN  /\ muon_tracks' = out.muon_tracks
         /\ muon_tracks_assn' = out.muon_tracks_assn
  /\ pc' = "put"
  /\ UNCHANGED <<call, cfg, hitlist, hit, lines, hit_idx, houghVars, fe, geoVars, muonVars>>

\* evt.put of the tracks and of the associations
ProducePut ==
  /\ pc = "put"
  /\ pc' = "done"
  /\ UNCHANGED <<call, cfg, hitlist, hit, lines, hit_idx, houghVars, fe, geoVars, muonVars,
                 outVars>>

----------------------------------------------------------------------------
(* The events and the configuration of a produce() call *)

\* the tracks of an event, <<plane, tpc, track>>, in the order of their hits
EventVals ==
  {<<>>,
   <<<<2, 0, Short>>, <<0, 0, ShortHalf>>, <<1, 0, Short>>>>,
   <<<<2, 0, Long>>, <<0, 0, Long>>>>,
   <<<<2, 1, Short>>, <<1, 1, ShortHalf>>>>,
   <<<<0, 0, Short>>, <<2, 0, Short>>>>,
   <<<<2, 0, Short>>, <<2, 1, Short>>, <<0, 0, Short>>, <<0, 1, Short>>>>,
   <<<<2, 0, Short>>, <<2, 0, Other>>, <<0, 0, Short>>, <<0, 0, Other>>>>,
   <<<<2, 0, Bent>>, <<0, 0, Bent>>>>}

RECURSIVE EventHits(_)
EventHits(ev) ==
  IF ev = <<>> THEN <<>>
  ELSE TrackHits(Head(ev)[3], Head(ev)[1], Head(ev)[2]) \o EventHits(Tail(ev))

EventConfigs ==
  [fHoughThreshold : {2}, fHoughMaxGap : {2}, fHoughRange : {30},
   fHoughMinLength : {0}, fHoughMuonLength : {0},
   fEndpointRange : EndpointRangeVals, fKeepMuonTypes : {{0, 1, 2, 3, 4, 5}, {0, 1, 2}}]

Init ==
  /\ pc = "start"
  /\ call = ""
  /\ cfg \in EventConfigs
  /\ hitlist \in {EventHits(ev) : ev \in EventVals}
  /\ hit = NoLines
  /\ lines = NoLines
  /\ hit_idx = [c \in {"02", "12"} |-> <<>>]
  /\ coords = <<>>
  /\ data = <<>>
  /\ deaccu = <<>>
  /\ outlines = <<>>
  /\ outhit_idx = <<>>
  /\ count = 0
  /\ accu = EmptyAccu
  /\ save_hits = TRUE
  /\ fe = NoFe
  /\ wireIsect = NoGeo
  /\ wireEnds = NoGeo
  /\ muon_endpoints = <<>>
  /\ muon_hitpeakT = <<>>
  /\ muon_hit_idx = <<>>
  /\ muon_type = <<>>
  /\ muon_t0 = <<>>
  /\ muon_trajectories = <<>>
  /\ muon_tracks = <<>>
  /\ muon_tracks_assn = <<>>

Next ==
  \/ ProduceCollect
  \/ HoughSeed
  \/ HoughMerge
  \/ HoughFilter
  \/ ProduceHough12
  \/ ProduceInduction
  \/ ProduceHoughSecond
  \/ ProduceMatchFirst
  \/ FindEndpointsStep
  \/ ProduceMatchSecond
  \/ ProduceTpc1
  \/ ProduceMatched
  \/ SortEndpoints
  \/ FindTrajectories
  \/ Findt0
  \/ ProduceTracks
  \/ ProducePut

Spec == Init /\ [][Next]_vars

----------------------------------------------------------------------------
(* produce() event after event: the data members keep their values from    *)
(* one call to the next, the locals of a call do not                       *)

\* the events of a sequence: no hit at all, a track in tpc 0 seen by both
\* induction planes, a track in each tpc, and a track in tpc 0 that ends at
\* tick 2000
AgainVals ==
  {<<>>,
   <<<<2, 0, Short>>, <<0, 0, ShortHalf>>, <<1, 0, Short>>>>,
   <<<<2, 0, Short>>, <<2, 1, Short>>, <<0, 0, Short>>, <<0, 1, Short>>>>,
   <<<<2, 0, Late>>, <<0, 0, LateBack>>>>}

\* the framework calls produce() for the next event: new hits, new
\* muon_tracks and muon_tracks_assn, new locals
ProduceAgain ==
  /\ pc = "done"
  /\ pc' = "start"
  /\ call' = ""
  /\ hitlist' \in {EventHits(ev) : ev \in AgainVals}
  /\ muon_tracks' = <<>>
  /\ muon_tracks_assn' = <<>>
  /\ coords' = <<>>
  /\ data' = <<>>
  /\ deaccu' = <<>>
  /\ outlines' = <<>>
  /\ outhit_idx' = <<>>
  /\ count' = 0
  /\ accu' = EmptyAccu
  /\ save_hits' = TRUE
  /\ fe' = NoFe
  /\ UNCHANGED <<cfg, hit, lines, hit_idx, geoVars, muonVars>>

AgainConfigs == {c \in EventConfigs : c.fKeepMuonTypes = {0, 1, 2, 3, 4, 5}}

\* the wires of the hits of the events
AgainWires == UNION {{WireID(EventHits(ev)[k]) : k \in 1..Len(EventHits(ev))} : ev \in AgainVals}

\* one detector: the answer of WireIDsIntersect for every collection and
\* induction wire of a tpc, the crossing yz of wire number 1000
Detector(yz) ==
  [key \in {k \in AgainWires \X AgainWires : k[1][2] = 2 /\ k[2][2] # 2 /\ k[1][1] = k[2][1]} |->
     [ok |-> TRUE, point |-> IsectPoint(key[1], key[2], yz)]]

\* crossings inside the volume, on the top, or just below the top
DetectorVals ==
  {Detector(<<0, 250000>>), Detector(<<199000, 250000>>), Detector(<<197500, 250000>>)}

\* the first event of a job: no data member has been filled yet
InitEvents ==
  /\ pc = "start"
  /\ call = ""
  /\ cfg \in AgainConfigs
  /\ hitlist \in {EventHits(ev) : ev \in AgainVals}
  /\ hit = NoLines
  /\ lines = NoLines
  /\ hit_idx = [c \in {"02", "12"} |-> <<>>]
  /\ coords = <<>>
  /\ data = <<>>
  /\ deaccu = <<>>
  /\ outlines = <<>>
  /\ outhit_idx = <<>>
  /\ count = 0
  /\ accu = EmptyAccu
  /\ save_hits = TRUE
  /\ fe = NoFe
  /\ wireIsect \in DetectorVals
  /\ wireEnds = NoGeo
  /\ muon_endpoints = <<>>
  /\ muon_hitpeakT = <<>>
  /\ muon_hit_idx = <<>>
  /\ muon_type = <<>>
  /\ muon_t0 = <<>>
  /\ muon_trajectories = <<>>
  /\ muon_tracks = <<>>
  /\ muon_tracks_assn = <<>>

NextEvents == Next \/ ProduceAgain

SpecEvents == InitEvents /\ [][NextEvents]_vars

----------------------------------------------------------------------------
(* Properties of the stand-alone Hough call (SpecHough) *)

\* the concatenation of the sequences of a sequence
RECURSIVE Flatten(_)
Flatten(ss) == IF ss = <<>> THEN <<>> ELSE Head(ss) \o Flatten(Tail(ss))

NoRepeat(s) == \A a, b \in 1..Len(s) : a # b => s[a] # s[b]

\* C1: a bucket with fewer points than the vote threshold (the empty bucket
\* included) gives no line segment and no member list, at any point of the
\* call and for every order in which the seeds are sampled
C1_BelowThresholdNoLines ==
  Len(hit["02"]) < cfg.fHoughThreshold =>
    outlines = <<>> /\ outhit_idx = <<>> /\ lines["02"] = <<>> /\ hit_idx["02"] = <<>>

\* the call has returned for a bucket of three points under a threshold of four
C1_Witness ==
  pc = "ret" /\ Len(hit["02"]) = 3 /\ cfg.fHoughThreshold = 4

\* C2: with save_hits set, no source index of a hit occurs in the member lists
\* of two segments nor twice in one member list: in the lists being built,
\* in the lists after the merge pass has appended a voided segment's list to
\* the survivor's, and in the lists returned
C2_MembersDisjoint ==
  save_hits => NoRepeat(Flatten(outhit_idx)) /\ NoRepeat(Flatten(hit_idx["02"]))

\* the merge pass has voided a segment and appended its members to a survivor
\* that now lists four hits or more
C2_Witness ==
  /\ pc = "filter"
  /\ save_hits
  /\ \E i, j \in 1..Len(outlines) :
        outlines[i] = <<>> /\ outlines[j] # <<>> /\ Len(outhit_idx[j]) >= 4

\* C3: the two endpoints of every returned segment carry distinct bucket
\* indices, each the index of a point of the input bucket (whose source index
\* is the wire index the endpoint carries)
C3_EndpointsDistinctValid ==
  \A n \in 1..Len(lines["02"]) :
    LET s == lines["02"][n]
    IN  /\ s[7] # s[8]
        /\ s[7] \in 0..(Len(hit["02"]) - 1)
        /\ s[8] \in 0..(Len(hit["02"]) - 1)
        /\ hit["02"][s[7] + 1][3] = s[5]
        /\ hit["02"][s[8] + 1][3] = s[6]

\* the call has returned two segments
C3_Witness ==
  pc = "ret" /\ Len(lines["02"]) >= 2

----------------------------------------------------------------------------
(* Properties of produce() (Spec) *)

\* the classification is over
Classified == pc \in {"trajectories", "t0", "tracks"} \/ (pc \in {"put", "done"} /\ muon_type # <<>>)

\* the number of cleared lines of a list
Cleared(ls) == Cardinality({n \in 1..Len(ls) : ls[n] = <<>>})

\* the pairs that pass the fKeepMuonTypes filter, in order: track n is made of
\* pair KeptPairs[n]
KeptPairs ==
  LET Kept(i) == muon_type[i] \in cfg.fKeepMuonTypes
  IN  SelectSeq([i \in 1..Len(muon_type) |-> i], Kept)

\* C4: every pair in the list has an early and a late endpoint of nonzero
\* magnitude, and a candidate whose early or late endpoint stayed unresolved
\* adds nothing to the list and leaves every primary line as it was
C4_PairOnlyWhenBothResolved ==
  /\ [](\A n \in 1..Len(muon_endpoints) :
          muon_endpoints[n][1] # Origin /\ muon_endpoints[n][2] # Origin)
  /\ [][(pc = "match" /\ fe' # fe /\ fe'.tested
          /\ (fe'.endpoint1 = Origin \/ fe'.endpoint2 = Origin))
        => (muon_endpoints' = muon_endpoints /\ lines' = lines)]_vars

\* a candidate has just been dropped with exactly one endpoint resolved, by
\* the fallback rule, and no pair has been appended
C4_Witness ==
  /\ pc = "match"
  /\ fe.tested
  /\ (fe.endpoint1 = Origin) # (fe.endpoint2 = Origin)
  /\ \E k \in DOMAIN wireIsect : ~wireIsect[k].ok
  /\ muon_endpoints = <<>>
  /\ Cleared(lines[fe.col]) = 0

\* C5 as stated: the two endpoints of every emitted track differ in at least
\* one coordinate
C5_EndpointsDiffer ==
  \A n \in 1..Len(muon_tracks) :
    <<muon_tracks[n].x1_pos, muon_tracks[n].y1_pos, muon_tracks[n].z1_pos>>
      # <<muon_tracks[n].x2_pos, muon_tracks[n].y2_pos, muon_tracks[n].z2_pos>>

\* C5 as amended: neither endpoint of an emitted track is the point of zero
\* magnitude (the two endpoints may be the same point)
C5_EndpointsNonZero ==
  \A n \in 1..Len(muon_tracks) :
    /\ <<muon_tracks[n].x1_pos, muon_tracks[n].y1_pos, muon_tracks[n].z1_pos>> # Origin
    /\ <<muon_tracks[n].x2_pos, muon_tracks[n].y2_pos, muon_tracks[n].z2_pos>> # Origin

\* a track has been emitted whose endpoints are the same point, both wire
\* pairs being the same pair of wires
C5_Witness ==
  /\ pc = "done"
  /\ \E n \in 1..Len(muon_tracks) :
        /\ muon_tracks[n].y1_pos = muon_tracks[n].y2_pos
        /\ muon_tracks[n].z1_pos = muon_tracks[n].z2_pos
        /\ muon_tracks[n].x1_pos = muon_tracks[n].x2_pos
        /\ muon_tracks[n].x1_pos # 0

\* C6: once classified, the type list is as long as the pair list, every
\* entry is one of 0..5, and entry i is 0 exactly when pair i is a long crossing
C6_OneTypePerPair ==
  Classified =>
    /\ Len(muon_type) = Len(muon_endpoints)
    /\ \A i \in 1..Len(muon_type) :
         /\ muon_type[i] \in 0..5
         /\ (muon_type[i] = 0) = (muon_hitpeakT[i][2] - muon_hitpeakT[i][1] > 2400)

\* a long crossing has been classified through the early exit
C6_Witness ==
  pc = "trajectories" /\ \E i \in 1..Len(muon_type) : muon_type[i] = 0

\* C7 as stated: a pair whose time difference exceeds 2400 has type 0 and the
\* x of its later endpoint is 0 in the pair list after the classification and
\* in the emitted track
C7_LongCrossingDepthZero ==
  /\ Classified =>
       \A i \in 1..Len(muon_endpoints) :
         muon_hitpeakT[i][2] - muon_hitpeakT[i][1] > 2400 =>
           muon_type[i] = 0 /\ muon_endpoints[i][2][1] = 0
  /\ pc = "done" =>
       \A n \in 1..Len(muon_tracks) : muon_tracks[n].type = 0 => muon_tracks[n].x2_pos = 0

\* C8 as stated: the hits associated with a track are exactly the hits whose
\* source index is in the member list of the primary line of its pair
C8_AssnsAreMembers ==
  pc = "done" =>
    \A n \in 1..Len(muon_tracks) :
      {muon_tracks_assn[a].hit : a \in {b \in 1..Len(muon_tracks_assn) :
                                          muon_tracks_assn[b].track = n}}
        = {muon_hit_idx[KeptPairs[n]][k] : k \in 1..Len(muon_hit_idx[KeptPairs[n]])}

\* C9: there are as many pairs as cleared primary lines, so no primary line
\* has given two, and a cleared primary line stays cleared
C9_OnePairPerPrimaryLine ==
  /\ [](Len(muon_endpoints) = Cleared(lines["02"]) + Cleared(lines["12"]))
  /\ [][\A c \in {"02", "12"} : \A n \in 1..Len(lines[c]) :
          lines[c][n] = <<>> => Len(lines'[c]) >= n /\ lines'[c][n] = <<>>]_vars

\* the scan against the second induction plane is over, it had a line to
\* offer, and the primary line consumed by the first scan was skipped
C9_Witness ==
  /\ FindEndpointsOver
  /\ fe.ind = "01"
  /\ lines["01"] # <<>>
  /\ Cleared(lines["02"]) = 1
  /\ Len(muon_endpoints) = 1
  /\ ~fe.tested

----------------------------------------------------------------------------
(* Properties of the merge pass (SpecMerge) *)

\* the segments a merge pass left uncleared, with their member lists, in order
RECURSIVE Surviving(_, _, _)
Surviving(outl, outh, i) ==
  IF i > Len(outl) THEN [outlines |-> <<>>, outhit_idx |-> <<>>]
  ELSE LET rest == Surviving(outl, outh, i + 1)
       IN  IF outl[i] = <<>> THEN rest
           ELSE [outlines |-> <<outl[i]>> \o rest.outlines,
                 outhit_idx |-> <<outh[i]>> \o rest.outhit_idx]

\* a second merge pass on the surviving segments clears none of them and
\* leaves every endpoint and every member list as it is
SecondPassChangesNothing ==
  LET s == Surviving(outlines, outhit_idx, 1)
  IN  MergePass(s.outlines, s.outhit_idx, save_hits) = s

\* every cleared segment comes before every surviving one in outlines
VoidedFirst ==
  \A i, j \in 1..Len(outlines) : (outlines[i] = <<>> /\ outlines[j] # <<>>) => i < j

\* C10 as stated: the merge pass is idempotent; after one merge pass, running
\* it again on the surviving segments clears no segment and changes no
\* endpoint and no member list
C10_MergeIdempotent == pc = "filter" => SecondPassChangesNothing

\* C10 amended: after a merge pass in which every cleared segment preceded
\* every surviving one, running the pass again on the surviving segments
\* clears no segment and changes no endpoint and no member list
C10_MergeIdempotentVoidedFirst == (pc = "filter" /\ VoidedFirst) => SecondPassChangesNothing

\* a merge pass has cleared a segment and left two that follow it
C10_Witness ==
  /\ pc = "filter"
  /\ VoidedFirst
  /\ \E i \in 1..Len(outlines) : outlines[i] = <<>>
  /\ Len(Surviving(outlines, outhit_idx, 1).outlines) >= 2

----------------------------------------------------------------------------
(* Properties of the point loop, the corridor walk and the filter          *)
(* (SpecHough)                                                             *)

\* the points of a bucket lie on one straight line, in order along it, with
\* consecutive wire jumps within the jump limit
StraightLine(b) ==
  /\ Len(b) >= 2
  /\ \A n \in 1..(Len(b) - 1) : b[n + 1][1] > b[n][1] /\ b[n + 1][1] - b[n][1] <= MaxJump
  /\ \A n \in 1..Len(b) :
       (b[n][1] - b[1][1]) * (b[2][2] - b[1][2]) = (b[n][2] - b[1][2]) * (b[2][1] - b[1][1])

\* the time span of a bucket that lies on a straight line
TimeSpan(b) == Abs(b[Len(b)][2] - b[1][2])

\* C11 as stated: in span mode, a bucket of at least fHoughThreshold points on
\* one straight line whose time span exceeds fHoughMuonLength gives exactly
\* one line, and the time span of its endpoints is at least fHoughMuonLength,
\* whatever the order of the seeds
C11_StraightLineOneSegment ==
  (/\ pc = "ret"
   /\ cfg.fHoughMuonLength # 0
   /\ StraightLine(hit["02"])
   /\ Len(hit["02"]) >= cfg.fHoughThreshold
   /\ TimeSpan(hit["02"]) > cfg.fHoughMuonLength)
  => /\ Len(lines["02"]) = 1
     /\ Abs(lines["02"][1][2] - lines["02"][1][4]) >= cfg.fHoughMuonLength

\* the seeds the point loop may sample next whose vote reaches the threshold,
\* each with its candidate line (and with what int(round()) gives for 0/0)
SeedCases ==
  IF pc # "hough" THEN {}
  ELSE UNION {LET sv == SeedVote(idx)
              IN  IF sv.max_val < cfg.fHoughThreshold THEN {}
                  ELSE {[idx |-> idx, rho |-> sv.rho, theta |-> sv.theta, nanv |-> n,
                         max_val |-> sv.max_val, accu |-> sv.accu, deaccu |-> sv.deaccu] :
                          n \in (IF sv.theta = 0 THEN UBNaN ELSE {0})}
              : idx \in {i \in 0..(count - 1) : coords[i + 1] # <<>>}}

\* the walk of seed case s in direction k, as it ends: direction 1 starts from
\* what direction 0 left of coords and data
WalkFrom(k, s) ==
  LET start == [i |-> 0, gap |-> 0, endpoint |-> <<0, 0, 0, 0>>,
                coords |-> coords, data |-> data, lines_idx |-> <<>>]
      w0 == Walk(0, s.idx, s.rho, s.theta, s.nanv, start)
  IN  IF k = 0 THEN w0
      ELSE Walk(1, s.idx, s.rho, s.theta, s.nanv,
                [start EXCEPT !.coords = w0.coords, !.data = w0.data,
                              !.lines_idx = w0.lines_idx])

\* the positions of data in direction k from idx
Side(k, idx) ==
  {q \in 0..(Len(data) - 1) : IF k = 0 THEN q > idx ELSE q < idx}

\* the uncleared points the walk of direction k meets before position p
Ahead(k, idx, p) ==
  {q \in Side(k, idx) : data[q + 1] # <<>> /\ (IF k = 0 THEN q < p ELSE q > p)}

\* the point at q lies in the corridor of the line of s
OnLine(s, q) ==
  Abs(YVal(s.rho, s.theta, data[q + 1][1], s.nanv) - data[q + 1][2]) <= cfg.fHoughRange

\* between the seed and p there is a point off the line
Interrupted(s, k, p) ==
  \E q \in Ahead(k, s.idx, p) : ~OnLine(s, q)

\* before p there are fHoughMaxGap or more consecutive points off the line
LongRun(s, k, p) ==
  \E q1, q2 \in Ahead(k, s.idx, p) :
    LET run == {q \in Ahead(k, s.idx, p) : q1 <= q /\ q <= q2}
    IN  (\A q \in run : ~OnLine(s, q)) /\ Cardinality(run) >= cfg.fHoughMaxGap

\* the point at q is more than the jump limit away from the last point on the
\* line before it
JumpAt(s, k, q) ==
  LET on == {a \in Ahead(k, s.idx, q) : OnLine(s, a)}
  IN  /\ on # {}
      /\ LET a == CHOOSE b \in on : \A b2 \in on : IF k = 0 THEN b2 <= b ELSE b <= b2
         IN  data[a + 1][1] # 0 /\ Abs(data[a + 1][1] - data[q + 1][1]) > MaxJump

\* C12 as stated (its walk): when an on-line point lies beyond runs of fewer
\* than fHoughMaxGap consecutive off-line points, the corridor walk goes on
\* across the runs and accepts the point into the same segment, so that the
\* line is found as one segment
C12_WalkBridgesGap ==
  \A s \in SeedCases : \A k \in {0, 1} :
    \A wr \in {WalkFrom(k, s)} :
      \A p \in Side(k, s.idx) :
        (data[p + 1] # <<>> /\ OnLine(s, p) /\ Interrupted(s, k, p) /\ ~LongRun(s, k, p))
        => wr.data[p + 1] = <<>>

\* C12 amended: the same when, in addition, no point of the runs and no
\* on-line point up to the one in question is more than the jump limit away
\* from the last accepted point
C12_WalkBridgesGapWithinJump ==
  \A s \in SeedCases : \A k \in {0, 1} :
    \A wr \in {WalkFrom(k, s)} :
      \A p \in Side(k, s.idx) :
        (/\ data[p + 1] # <<>>
         /\ OnLine(s, p)
         /\ Interrupted(s, k, p)
         /\ ~LongRun(s, k, p)
         /\ \A q \in Ahead(k, s.idx, p) \cup {p} : ~JumpAt(s, k, q))
        => wr.data[p + 1] = <<>>

\* a walk can accept a point that lies beyond an off-line point
C12_Witness ==
  \E s \in SeedCases : \E k \in {0, 1} : \E p \in Side(k, s.idx) :
    /\ data[p + 1] # <<>>
    /\ OnLine(s, p)
    /\ Interrupted(s, k, p)
    /\ ~LongRun(s, k, p)
    /\ WalkFrom(k, s).data[p + 1] = <<>>

\* the ends of an induction wire that lie on the top or bottom and within 8 cm
\* along z of the collection wire
AgreeingEnds(ce, ie) ==
  {b \in {ie[1], ie[2]} : Abs(b[2]) > 198000 /\ Abs(ce[1][3] - b[3]) < 8000}

\* what the fallback is to give for the wire ends ce and ie
FallbackPoints(ce, ie) ==
  IF AgreeingEnds(ce, ie) = {} THEN {Origin}
  ELSE {<<ce[1][1], b[2], b[3]>> : b \in AgreeingEnds(ce, ie)}

C14_CallerBucketCleared ==
  pc = "ret" =>
    LET b == Bucket(hitlist, 2, 0, Len(hitlist))
    IN  \A n \in 1..Len(hit_idx["02"]) : \A m \in 1..Len(hit_idx["02"][n]) :
          \A p \in 1..Len(b) :
            b[p][3] = hit_idx["02"][n][m] => hit["02"][p] = <<>>

\* the seed at idx fails its vote in this step
SeedFails(idx) ==
  /\ coords[idx + 1] # <<>>
  /\ Len(deaccu') = Len(deaccu) + 1
  /\ deaccu'[Len(deaccu')] = <<coords[idx + 1][1], coords[idx + 1][2]>>
  /\ LET sv == SeedVote(idx)
     IN  sv.max_val < cfg.fHoughThreshold /\ accu' = sv.accu /\ deaccu' = sv.deaccu

\* C14 amended: the caller's bucket is left as it was built; it is in the
\* copy Hough works on that every point consumed by a walk or discarded as a
\* failed seed is cleared (set empty, not removed), while every other
\* position keeps its point
C14_CopyCleared ==
  [][/\ hit' = hit
     /\ hit'["02"] = Bucket(hitlist, 2, 0, Len(hitlist))
     /\ (pc = "hough" /\ count' = count - 1) =>
          /\ Len(coords') = Len(hit["02"])
          /\ \A p \in 1..Len(coords') :
                /\ coords'[p] \in {<<>>, coords[p]}
                /\ coords[p] \in {<<>>, hit["02"][p]}
                /\ data'[p] = <<>> => coords'[p] = <<>>
                /\ (coords'[p] = <<>> /\ coords[p] # <<>>)
                     => (data'[p] # data[p] \/ SeedFails(p - 1))
          /\ \A idx \in 0..(count - 1) :
                (data' = data /\ SeedFails(idx)) =>
                   \E p \in 1..Len(coords) :
                     /\ coords[p] # <<>>
                     /\ coords[p][1] = coords[idx + 1][1]
                     /\ coords[p][2] = coords[idx + 1][2]
                     /\ coords'[p] = <<>>]_vars

\* Hough has cleared a consumed point and a failed seed in its copy of a
\* bucket the caller still holds in full
C14_Witness ==
  /\ pc = "hough"
  /\ \E p \in 1..Len(data) : data[p] = <<>> /\ coords[p] = <<>> /\ hit["02"][p] # <<>>
  /\ \E p \in 1..Len(data) : data[p] # <<>> /\ coords[p] = <<>>

\* C15 as stated: once the induction buckets are filled, for each tpc with a
\* collection line the two induction buckets of the tpc hold exactly the hits
\* of their plane and tpc with a positive peak time, and for a tpc without a
\* collection line they are empty; both tpcs at once included
C15_InductionBucketsPerTpc ==
  call \in {"00", "01", "10", "11"} =>
    \A tpc \in {0, 1} : \A plane \in {0, 1} :
      LET col == IF tpc = 0 THEN "02" ELSE "12"
          ind == IF tpc = 0 THEN (IF plane = 0 THEN "00" ELSE "01")
                 ELSE (IF plane = 0 THEN "10" ELSE "11")
      IN  hit[ind] = IF lines[col] # <<>> THEN Bucket(hitlist, plane, tpc, Len(hitlist))
                     ELSE <<>>

\* C16 as stated: whatever the hits of the bucket (any wire of the range, any
\* positive peak time) and the configuration (threshold 0 and gap 0 included),
\* no step of Hough reads or writes outside coords, data, outlines or accu
C16_NoAccessOutOfRange == pc # "ub"

\* endpoint e (0 or 1) of a segment, <<x, y>>
EndpointOf(seg, e) == <<seg[1 + 2 * e], seg[2 + 2 * e]>>

\* C17 as stated: when segment i is merged into segment j through endpoint k
\* of i and endpoint l of j, endpoint l of j becomes the other endpoint of i,
\* the other endpoint of j stays, segment i is voided and, with save_hits, the
\* members of i are appended to those of j
C17_MergeTakesOtherEndpoint ==
  (pc = "hough" /\ count = 0) =>
    \A i \in 1..Len(outlines) :
      LET t == MergeFirst(outlines, i)
      IN  t # <<>> =>
            LET j == t[1]
                k == t[2]
                l == t[3]
                r == MergeStep([outlines |-> outlines, outhit_idx |-> outhit_idx],
                               i, t, save_hits)
            IN  /\ EndpointOf(r.outlines[j], l) = EndpointOf(outlines[i], 1 - k)
                /\ EndpointOf(r.outlines[j], 1 - l) = EndpointOf(outlines[j], 1 - l)
                /\ r.outlines[i] = <<>>
                /\ save_hits => r.outhit_idx[j] = outhit_idx[j] \o outhit_idx[i]

\* the walk of seed case s in direction k accepted a point
Accepted(k, s) ==
  WalkFrom(k, s).data # (IF k = 0 THEN data ELSE WalkFrom(0, s).data)

\* the candidate of seed case s is recorded in outlines
Recorded(s) ==
  Outline(Corridor(s.idx, s.rho, s.theta, s.nanv).endpoint, s.rho, s.theta) # <<>>

\* C18 as stated: a candidate is dropped only when its walk accepted no point
\* in either direction; a candidate whose walk accepted a point in at least
\* one direction is recorded
C18_RecordedIfEitherDirection ==
  \A s \in SeedCases : Recorded(s) <=> (Accepted(0, s) \/ Accepted(1, s))

\* the position the walk wr of direction k from idx would visit next
NextPos(k, idx, wr) == idx + wr.i + (IF k = 0 THEN 1 ELSE -1)

\* the walk has reached the edge of data
AtEdge(k, idx, wr) == NextPos(k, idx, wr) = Len(wr.data) \/ NextPos(k, idx, wr) < 0

\* the walk has made fHoughMaxGap rejections in a row
GapFull(wr) == wr.gap >= cfg.fHoughMaxGap

\* the next point of the walk is more than the jump limit away from the last
\* accepted one
AtJump(k, idx, wr) ==
  /\ ~AtEdge(k, idx, wr)
  /\ wr.data[NextPos(k, idx, wr) + 1] # <<>>
  /\ wr.endpoint[1] # 0
  /\ Abs(wr.endpoint[1] - wr.data[NextPos(k, idx, wr) + 1][1]) > MaxJump

\* the points the walk has visited and left in data since its last acceptance
RejectedSince(k, idx, wr) ==
  LET last == IF wr.endpoint = <<0, 0, 0, 0>> THEN idx ELSE wr.endpoint[4]
      here == idx + wr.i
  IN  {q \in 0..(Len(wr.data) - 1) :
         /\ wr.data[q + 1] # <<>>
         /\ IF k = 0 THEN last < q /\ q <= here ELSE here <= q /\ q < last}

\* C19 as stated: a point the walk does not accept only adds one to the gap
\* counter, and the walk of a direction ends only after fHoughMaxGap
\* rejections in a row or at the edge of the bucket
C19_WalkEndsAtGapOrEdge ==
  \A s \in SeedCases : \A k \in {0, 1} :
    \A wr \in {WalkFrom(k, s)} :
      /\ wr.gap = Cardinality(RejectedSince(k, s.idx, wr))
      /\ GapFull(wr) \/ AtEdge(k, s.idx, wr)

\* C19 amended: a point outside the corridor only adds one to the gap counter,
\* and the walk of a direction ends only after fHoughMaxGap rejections in a
\* row, at the edge of the bucket, or at a point more than the jump limit away
\* from the last accepted point, where it ends at once
C19_WalkEndsAtGapEdgeOrJump ==
  \A s \in SeedCases : \A k \in {0, 1} :
    \A wr \in {WalkFrom(k, s)} :
      /\ wr.gap = Cardinality(RejectedSince(k, s.idx, wr))
      /\ GapFull(wr) \/ AtEdge(k, s.idx, wr) \/ AtJump(k, s.idx, wr)

\* a walk that ends on its rejections, having passed a rejected point and gone
\* on, and a walk that ends at a jump
C19_Witness ==
  /\ cfg.fHoughMaxGap = 2
  /\ \E s \in SeedCases : \E k \in {0, 1} :
       GapFull(WalkFrom(k, s)) /\ ~AtEdge(k, s.idx, WalkFrom(k, s))
  /\ \E s \in SeedCases : \E k \in {0, 1} :
       ~GapFull(WalkFrom(k, s)) /\ AtJump(k, s.idx, WalkFrom(k, s))

\* the points the loop may sample next
Seeds == IF pc # "hough" THEN {} ELSE {idx \in 0..(count - 1) : coords[idx + 1] # <<>>}

\* the counts, in the accumulator a, of the cells the seed at idx votes into,
\* theta bin by theta bin
CellCounts(idx, a) ==
  [j \in 0..(accu_w - 1) |->
     AccuAt(a, Rho(coords[idx + 1][1], coords[idx + 1][2], j), j)]

\* the highest of the counts cc
Highest(cc) ==
  LET S == {cc[j] : j \in DOMAIN cc}
  IN  CHOOSE m \in S : \A m2 \in S : m2 <= m

\* the candidate sv of the seed at idx is the cell of the smallest theta bin
\* among the cells with the highest count m
TakesFirstHighest(idx, sv, cc, m) ==
  /\ cc[sv.theta] = m
  /\ \A j \in 0..(sv.theta - 1) : cc[j] < m
  /\ sv.rho = Rho(coords[idx + 1][1], coords[idx + 1][2], sv.theta)

\* C20 as stated: a seed yields a candidate line only if a cell it voted into
\* has a count above fHoughThreshold, and the candidate is the cell of the
\* smallest theta bin among those with the highest count
C20_CandidateAboveThreshold ==
  \A idx \in Seeds :
    \A sv \in {SeedVote(idx)} : \A cc \in {CellCounts(idx, sv.accu)} :
      \A m \in {Highest(cc)} :
        ~(sv.max_val < cfg.fHoughThreshold)
          => (m > cfg.fHoughThreshold /\ TakesFirstHighest(idx, sv, cc, m))

\* C20 amended: a seed yields a candidate line if and only if a cell it voted
\* into has a count of at least fHoughThreshold, and the candidate is the cell
\* of the smallest theta bin among those with the highest count
C20_CandidateAtThreshold ==
  \A idx \in Seeds :
    \A sv \in {SeedVote(idx)} : \A cc \in {CellCounts(idx, sv.accu)} :
      \A m \in {Highest(cc)} :
        /\ ~(sv.max_val < cfg.fHoughThreshold) <=> m >= cfg.fHoughThreshold
        /\ ~(sv.max_val < cfg.fHoughThreshold) => TakesFirstHighest(idx, sv, cc, m)

\* a seed becomes a candidate with a highest count equal to the threshold that
\* several theta bins share
C20_Witness ==
  \E idx \in Seeds :
    \E sv \in {SeedVote(idx)} : \E cc \in {CellCounts(idx, sv.accu)} :
      \E m \in {Highest(cc)} :
        /\ m = cfg.fHoughThreshold
        /\ \E j1, j2 \in DOMAIN cc : j1 # j2 /\ cc[j1] = m /\ cc[j2] = m
        /\ ~(sv.max_val < cfg.fHoughThreshold)

\* the point at position p of the bucket was discarded as a failed seed and
\* no walk has consumed it since
Failed(p) == coords[p] = <<>> /\ data[p] # <<>>

\* the point (x, y) of position p
PointAt(p) == <<data[p][1], data[p][2]>>

\* every cell the point v votes into holds at least one vote in a
VotePresent(v, a) ==
  \E rs \in {Rhos(v[1], v[2])} : \A j \in 1..accu_w : ColumnAt(a[j], rs[j]) >= 1

\* the number of entries of the sequence seq that equal v
Occ(seq, v) == Cardinality({n \in 1..Len(seq) : seq[n] = v})

\* what the un-vote of seed case s leaves of the accumulator and the
\* de-accumulator
UnvoteOf(s) == Unvote(s.accu, s.deaccu, s.rho, s.theta, s.nanv)

\* C21 as stated: the vote of a discarded seed stays in the accumulator for
\* the rest of the invocation
C21_FailedSeedVoteStays ==
  pc = "hough" => \A p \in 1..Len(data) : Failed(p) => VotePresent(PointAt(p), accu)

\* C21 amended: a discarded seed stays cleared, so the loop never takes it as a
\* voting seed again: every vote is the vote of an uncleared point; and its
\* vote leaves the accumulator only in the un-vote of a later candidate line
\* whose corridor holds the point
C21_FailedSeedVoteStaysOutsideCorridors ==
  [][pc = "hough" =>
       /\ \A p \in 1..Len(data) : Failed(p) =>
            /\ coords'[p] = <<>>
            /\ Occ(deaccu', PointAt(p)) < Occ(deaccu, PointAt(p)) =>
                 \E s \in SeedCases :
                   /\ InCorridor(PointAt(p), s.rho, s.theta, s.nanv)
                   /\ deaccu' = UnvoteOf(s).deaccu
                   /\ accu' = UnvoteOf(s).accu
            /\ (Occ(deaccu', PointAt(p)) >= Occ(deaccu, PointAt(p))
                /\ VotePresent(PointAt(p), accu)) => VotePresent(PointAt(p), accu')
       /\ (deaccu' # deaccu \/ accu' # accu) =>
            \E idx \in Seeds :
              \/ SeedFails(idx)
              \/ \E s \in SeedCases : s.idx = idx /\ accu' = UnvoteOf(s).accu]_vars

\* a discarded seed that is still in data has lost its vote to the un-vote of
\* a later line, while another discarded seed outside the corridor keeps its
\* vote
C21_Witness ==
  /\ pc = "hough"
  /\ \E p \in 1..Len(data) : Failed(p) /\ ~VotePresent(PointAt(p), accu)
  /\ \E p \in 1..Len(data) :
       Failed(p) /\ VotePresent(PointAt(p), accu) /\ Occ(deaccu, PointAt(p)) > 0

\* C22 as stated: when the point loop has ended no unconsumed point remains:
\* every point of the bucket was consumed by a line or discarded as a failed
\* seed, so the loop only ever sampled points that were not yet cleared
C22_LoopLeavesNoPoint ==
  (pc = "hough" /\ count = 0) => \A p \in 1..Len(coords) : coords[p] = <<>>

\* the accumulator that holds one vote of every point of the sequence pts
VotesOf(pts) == AccuAddAll(EmptyAccu, pts, 1)

\* C23: at the end of every iteration of the point loop the accumulator holds
\* exactly the votes of the points in the de-accumulator, no cell is negative,
\* and a step takes a point out of the de-accumulator exactly when it takes
\* its votes out of the accumulator
C23_AccuIsVotesOfDeaccu ==
  pc = "hough" =>
    /\ accu = VotesOf(deaccu)
    /\ \A j \in 1..accu_w : \A r \in DOMAIN accu[j] : accu[j][r] > 0

\* a line has been found and un-voted while a point outside its corridor is
\* still in the de-accumulator with its votes
C23_Witness ==
  /\ pc = "hough"
  /\ outlines # <<>>
  /\ deaccu # <<>>
  /\ \E n \in 1..Len(deaccu) :
       ~InCorridor(deaccu[n], outlines[1][9], outlines[1][10], 0)

\* the time difference of pair i, late minus early
Dt(i) == muon_hitpeakT[i][2] - muon_hitpeakT[i][1]

\* the endpoints of pair i lie on opposite boundaries in y (top and bottom)
OppositeY(i) ==
  \/ muon_endpoints[i][1][2] > 198000 /\ muon_endpoints[i][2][2] < -198000
  \/ muon_endpoints[i][1][2] < -198000 /\ muon_endpoints[i][2][2] > 198000

\* the endpoints of pair i lie on opposite boundaries in z (upstream and
\* downstream)
OppositeZ(i) ==
  \/ muon_endpoints[i][1][3] > 503000 /\ muon_endpoints[i][2][3] < 6000
  \/ muon_endpoints[i][1][3] < 6000 /\ muon_endpoints[i][2][3] > 503000

\* C24: the type of a pair is decided in one step with a fixed priority: long
\* crossing, then only the later endpoint on edge, then only the earlier one,
\* then opposite in y, then opposite in z, else unclassified; so the two
\* opposite-boundary types go to pairs with both endpoints on edge only
C24_ClassifierPriority ==
  Classified =>
    /\ Len(muon_type) = Len(muon_endpoints)
    /\ \A i \in 1..Len(muon_type) :
         LET e1 == OnEdge(muon_endpoints[i][1])
             e2 == OnEdge(muon_endpoints[i][2])
             t  == muon_type[i]
         IN  /\ (t = 0) = (Dt(i) > 2400)
             /\ (t = 1) = (Dt(i) <= 2400 /\ ~e1 /\ e2)
             /\ (t = 2) = (Dt(i) <= 2400 /\ e1 /\ ~e2)
             /\ (t = 3) = (Dt(i) <= 2400 /\ e1 = e2 /\ OppositeY(i))
             /\ (t = 4) = (Dt(i) <= 2400 /\ e1 = e2 /\ ~OppositeY(i) /\ OppositeZ(i))
             /\ (t = 5) = (Dt(i) <= 2400 /\ e1 = e2 /\ ~OppositeY(i) /\ ~OppositeZ(i))
             /\ t \in {3, 4} => (e1 /\ e2)

\* a long crossing whose endpoints would also pass a single-edge rule got
\* type 0
C24_Witness ==
  /\ pc = "trajectories"
  /\ \E i \in 1..Len(muon_type) :
       /\ muon_type[i] = 0
       /\ OnEdge(muon_endpoints[i][1]) # OnEdge(muon_endpoints[i][2])

\* Findt0 has run
Timed == pc = "tracks" \/ (pc \in {"put", "done"} /\ muon_t0 # <<>>)

\* C25: the t0 list has one entry per pair in the order of the pairs; in units
\* of 0.5, entry i is t_early - 500 for the types 0 and 1, t_late - 3000 for
\* type 2 and the sentinel -1000 (that is -500) for every other type
C25_T0FromTypeAndTimes ==
  Timed =>
    /\ Len(muon_t0) = Len(muon_endpoints)
    /\ Len(muon_t0) = Len(muon_hitpeakT)
    /\ \A i \in 1..Len(muon_t0) :
         /\ muon_hitpeakT[i][1] <= muon_hitpeakT[i][2]
         /\ muon_type[i] \in {0, 1} => muon_t0[i] = muon_hitpeakT[i][1] - 500
         /\ muon_type[i] = 2 => muon_t0[i] = muon_hitpeakT[i][2] - 3000
         /\ muon_type[i] \in {3, 4, 5} => muon_t0[i] = -1000

\* a pair of type 2 has been timed from its late sample, which differs from
\* its early one
C25_Witness ==
  /\ pc = "tracks"
  /\ \E i \in 1..Len(muon_t0) :
       muon_type[i] = 2 /\ muon_hitpeakT[i][1] < muon_hitpeakT[i][2]

\* C26 as stated: once a secondary line has passed the time test for a primary
\* line, no later secondary line is tried for that primary line in the scan
C26_OnlyFirstTimeMatchTried ==
  [][(pc = "match" /\ pc' = "match" /\ fe'.tested /\ fe'.i < Len(lines'[fe.col]))
       => fe'.i # fe.i]_vars

\* the candidate (fe.i, fe.j) passes the time test
CandidateTimesMatch ==
  TimesMatch(Ordered(lines[fe.col][fe.i + 1]), Ordered(lines[fe.ind][fe.j + 1]),
             cfg.fEndpointRange)

\* C26 amended: for a primary line the secondary lines are taken in list order
\* and 3D resolution is attempted against each one that passes the time test,
\* until one gives a pair: after a pair no later secondary line is tried for
\* this primary line, after a failed time test or a failed resolution the
\* next secondary line is
C26_ScanUntilPair ==
  [][(pc = "match" /\ fe.i < Len(lines[fe.col])) =>
       /\ fe'.tested = CandidateTimesMatch
       /\ Len(muon_endpoints') > Len(muon_endpoints) =>
            /\ CandidateTimesMatch
            /\ lines'[fe.col][fe.i + 1] = <<>>
            /\ fe'.i > fe.i
       /\ (Len(muon_endpoints') = Len(muon_endpoints)
           /\ fe.j + 1 < Len(lines[fe.ind])) =>
            /\ fe'.i = fe.i
            /\ fe'.j = fe.j + 1]_vars

\* a secondary line passed the time test for a primary line, the resolution
\* failed, and the next secondary line is up for the same primary line
C26_Witness ==
  /\ pc = "match"
  /\ fe.tested
  /\ fe.j > 0
  /\ fe.i < Len(lines[fe.col])
  /\ lines[fe.col][fe.i + 1] # <<>>
  /\ ~BothResolved(fe.endpoint1, fe.endpoint2)

----------------------------------------------------------------------------
(* Properties of a sequence of events (SpecEvents) *)

\* a collection call of the event is under way or has returned
InCollection == pc \in {"hough", "merge", "filter", "ret"} /\ call \in {"02", "12"}

\* the resets of lines 199 and 200 have run for the event
AfterResets == pc # "start" /\ ~InCollection

\* the bucket of the event for the call c
BucketOf(c) ==
  LET n == Len(hitlist)
  IN  CASE c = "02" -> Bucket(hitlist, 2, 0, n)
        [] c = "12" -> Bucket(hitlist, 2, 1, n)
        [] c = "00" -> Bucket(hitlist, 0, 0, n)
        [] c = "01" -> Bucket(hitlist, 1, 0, n)
        [] c = "10" -> Bucket(hitlist, 0, 1, n)
        [] c = "11" -> Bucket(hitlist, 1, 1, n)

\* the lines of the call c are lines of the event: no more of them than points
\* in the bucket, each from a point of the bucket to a point of the bucket
LinesOfEvent(c) ==
  LET b == BucketOf(c)
  IN  /\ Len(lines[c]) <= Len(b)
      /\ \A i \in 1..Len(lines[c]) :
           \/ lines[c][i] = <<>>
           \/ \E p, q \in 1..Len(b) :
                /\ <<lines[c][i][1], lines[c][i][2], lines[c][i][5]>> = b[p]
                /\ <<lines[c][i][3], lines[c][i][4], lines[c][i][6]>> = b[q]

\* the collection lines that FindEndpoints has cleared
ClearedLines == {<<c, i>> \in {"02", "12"} \X (1..Len(hitlist)) :
                   i <= Len(lines[c]) /\ lines[c][i] = <<>>}

\* the peak times of the collection hits of the event
CollectionTimes ==
  UNION {{BucketOf(c)[k][2] : k \in 1..Len(BucketOf(c))} : c \in {"02", "12"}}

\* C27: over any sequence of events, the buckets, the line lists, the pairs,
\* the types, the t0 values and the trajectories in use for an event hold data
\* of that event only: the collection buckets and lines from the start of the
\* event, the induction buckets and lines and the muon lists from the resets
\* on, and the tracks put are those of the pairs of the event
C27_EventScoped ==
  /\ pc # "start" =>
       \A c \in {"02", "12"} :
         /\ hit[c] = BucketOf(c)
         /\ LinesOfEvent(c)
         /\ Len(hit_idx[c]) <= Len(lines[c])
         /\ \A i \in 1..Len(hit_idx[c]) : \A k \in 1..Len(hit_idx[c][i]) :
              \E p \in 1..Len(hit[c]) : hit[c][p][3] = hit_idx[c][i][k]
  /\ AfterResets =>
       /\ \A c \in {"00", "01", "10", "11"} : hit[c] \in {<<>>, BucketOf(c)} /\ LinesOfEvent(c)
       /\ Len(muon_endpoints) = Cardinality(ClearedLines)
       /\ Len(muon_hitpeakT) = Len(muon_endpoints)
       /\ Len(muon_hit_idx) = Len(muon_endpoints)
       /\ \A i \in 1..Len(muon_hitpeakT) :
            muon_hitpeakT[i][1] \in CollectionTimes /\ muon_hitpeakT[i][2] \in CollectionTimes
       /\ \A i \in 1..Len(muon_hit_idx) : \A k \in 1..Len(muon_hit_idx[i]) :
            /\ muon_hit_idx[i][k] < Len(hitlist)
            /\ hitlist[muon_hit_idx[i][k] + 1].plane = 2
       /\ Len(muon_type) \in {0, Len(muon_endpoints)}
       /\ Len(muon_trajectories) \in {0, Len(muon_endpoints)}
       /\ Len(muon_t0) \in {0, Len(muon_endpoints)}
  /\ pc = "done" =>
       /\ muon_tracks = [i \in 1..Len(muon_endpoints) |-> MuonTrack(i)]
       /\ \A a \in 1..Len(muon_tracks_assn) : muon_tracks_assn[a].track <= Len(muon_tracks)

\* an event with a collection hit in tpc 0 is in its first Hough call, its
\* lines_02 emptied, while lines_00 and the pairs are still those of the event
\* before it
C27_Witness ==
  /\ pc = "hough"
  /\ call = "02"
  /\ hit["02"] # <<>>
  /\ lines["02"] = <<>>
  /\ lines["00"] # <<>>
  /\ muon_endpoints # <<>>
  /\ muon_tracks = <<>>

----------------------------------------------------------------------------
(* Properties of the indices of a segment's endpoints (SpecMerge) *)

\* endpoint e (0 or 1) of the segment seg is the point of the bucket b at the
\* segment's bucket index, and the hit at its sourceIndex has its wire and tick
IndexedEndpoint(seg, e, b) ==
  /\ seg[7 + e] + 1 \in 1..Len(b)
  /\ b[seg[7 + e] + 1] = <<seg[1 + 2 * e], seg[2 + 2 * e], seg[5 + e]>>
  /\ seg[5 + e] + 1 \in 1..Len(hitlist)
  /\ hitlist[seg[5 + e] + 1].wire = seg[1 + 2 * e]
  /\ IntPeakTime(hitlist[seg[5 + e] + 1]) = seg[2 + 2 * e]

\* C28 as stated: for every segment the Hough call returns, merged or not, the
\* sourceIndex and the bucket index of each endpoint are those of the point
\* with the endpoint's (u, t), so the hit looked up for the endpoint is the
\* hit at its coordinates
C28_EndpointIndexIdentifiesPoint ==
  \A i \in 1..Len(lines["02"]) : \A e \in {0, 1} :
    IndexedEndpoint(lines["02"][i], e, hit["02"])

----------------------------------------------------------------------------
(* Properties of the points a walk consumes (SpecTracks) *)

\* the hit indices in the member lists of the recorded segments
Members == UNION {{outhit_idx[i][k] : k \in 1..Len(outhit_idx[i])} : i \in 1..Len(outhit_idx)}

\* C29 as stated: every point that a corridor walk has cleared from the point
\* lists is in the member list of a segment the call has recorded; no walk
\* consumes points for a candidate that is then dropped
C29_ConsumedAreMembers ==
  pc = "hough" =>
    \A p \in 1..Len(data) : data[p] = <<>> => hit["02"][p][3] \in Members

----------------------------------------------------------------------------
(* Properties of the t0 of a track (SpecEvents) *)

\* C30 as stated: a track of type 0, 1 or 2 is never put with the t0 of the
\* untimed types, -500 (-1000 in units of 0.5), whatever positive time pair
\* with early <= late the matcher gave it
C30_TimedNeverSentinel ==
  \A n \in 1..Len(muon_tracks) :
    muon_tracks[n].type \in {0, 1, 2} => muon_tracks[n].t0_us # T0(<<0, 0>>, 5)

====
